---- MODULE Spec2Model ----
(***************************************************************************)
(* Model of the project-tree configuration engine, class                   *)
(* ProjectTreeDataProvider of src/src/projectTree.ts (the revision at      *)
(* lines 592-2373).                                                        *)
(*                                                                         *)
(* Representation.                                                         *)
(*  - A string is a sequence of tokens.  A token stands for a run of       *)
(*    characters that no operation of the engine ever splits ("Work",      *)
(*    "projects", "__root__"), or for one significant character (".",      *)
(*    "/", "~", " ", "[", "]", a digit).  Concatenation, trim, split and   *)
(*    the regular expression of parseProjectConfigPath act on tokens the   *)
(*    way the code acts on characters.                                     *)
(*  - A JavaScript value is a record tagged by t: "object" (an ordered     *)
(*    sequence of key/value entries, as Object.entries enumerates them),   *)
(*    "array", "string", "number" (any JSON scalar that is not a string)   *)
(*    and "undefined".                                                     *)
(*  - Object references are modelled by the path at which the object was   *)
(*    found together with the tree generation it was found in: a command   *)
(*    that keeps a node across an await keeps a copy of the generation as  *)
(*    soon as loadConfig replaces this.config.                             *)
(***************************************************************************)
EXTENDS Integers, Sequences, FiniteSets, TLC

(***************************************************************************)
(* JavaScript values                                                       *)
(***************************************************************************)
Undefined == [t |-> "undefined"]

Num == [t |-> "number"]

Str(s) == [t |-> "string", s |-> s]

Arr(items) == [t |-> "array", items |-> items]

Obj(ents) == [t |-> "object", ents |-> ents]

Ent(k, v) == [k |-> k, v |-> v]

EmptyObject == Obj(<<>>)

isPlainObject(v) == v.t = "object"

IsArray(v) == v.t = "array"

IsString(v) == v.t = "string"

\* Position of key k among the entries of object o, 0 when absent.
KeyIndex(o, k) ==
  LET I == {i \in 1..Len(o.ents) : o.ents[i].k = k}
  IN  IF I = {} THEN 0 ELSE CHOOSE i \in I : TRUE

\* o[k]
GetProp(o, k) ==
  IF KeyIndex(o, k) = 0 THEN Undefined ELSE o.ents[KeyIndex(o, k)].v

\* o[k] = v : an existing key keeps its position, a new key goes last.
SetProp(o, k, v) ==
  IF KeyIndex(o, k) = 0
    THEN Obj(Append(o.ents, Ent(k, v)))
    ELSE Obj([o.ents EXCEPT ![KeyIndex(o, k)] = Ent(k, v)])

\* delete o[k]
DeleteProp(o, k) == Obj(SelectSeq(o.ents, LAMBDA e : e.k # k))

\* Object.keys(o)
Keys(o) == [i \in 1..Len(o.ents) |-> o.ents[i].k]

\* Array.prototype.splice(index, 1) on a sequence (index from 0).
Splice1(s, index) ==
  [i \in 1..(Len(s) - 1) |-> IF i <= index THEN s[i] ELSE s[i + 1]]

(***************************************************************************)
(* Strings                                                                 *)
(***************************************************************************)
SP == " "

RECURSIVE TrimStart(_)
TrimStart(s) ==
  IF s # <<>> /\ Head(s) = SP THEN TrimStart(Tail(s)) ELSE s

RECURSIVE TrimEnd(_)
TrimEnd(s) ==
  IF s # <<>> /\ s[Len(s)] = SP THEN TrimEnd(SubSeq(s, 1, Len(s) - 1)) ELSE s

\* String.prototype.trim
Trim(s) == TrimEnd(TrimStart(s))

\* String.prototype.split(sep) for a one-token separator: the pieces,
\* empty ones included.
RECURSIVE SplitOn(_, _)
SplitOn(s, sep) ==
  LET I == {i \in 1..Len(s) : s[i] = sep}
  IN  IF I = {} THEN <<s>>
      ELSE LET i == CHOOSE j \in I : \A m \in I : j <= m
           IN  <<SubSeq(s, 1, i - 1)>> \o SplitOn(SubSeq(s, i + 1, Len(s)), sep)

\* Array.prototype.join(sep)
RECURSIVE JoinWith(_, _)
JoinWith(parts, sep) ==
  IF parts = <<>> THEN <<>>
  ELSE IF Len(parts) = 1 THEN parts[1]
  ELSE parts[1] \o sep \o JoinWith(Tail(parts), sep)

Includes(s, tok) == \E i \in 1..Len(s) : s[i] = tok

Digits == <<"0", "1", "2", "3", "4", "5", "6", "7", "8", "9">>

IsDigit(tok) == \E i \in 1..Len(Digits) : Digits[i] = tok

\* Decimal form of a natural number.
RECURSIVE NumToStr(_)
NumToStr(n) ==
  IF n < 10 THEN <<Digits[n + 1]>>
  ELSE NumToStr(n \div 10) \o <<Digits[(n % 10) + 1]>>

DigitValue(tok) == (CHOOSE i \in 1..Len(Digits) : Digits[i] = tok) - 1

\* Number(digits)
RECURSIVE StrToNum(_)
StrToNum(s) ==
  IF s = <<>> THEN 0
  ELSE 10 * StrToNum(SubSeq(s, 1, Len(s) - 1)) + DigitValue(s[Len(s)])

(***************************************************************************)
(* Paths: node's path module on a POSIX host                               *)
(***************************************************************************)
SEP == "/"

BACKSLASH == "\\"

\* os.homedir()
HomeDir == <<SEP, "home">>

\* getConfigDirectory(): the directory that holds projects.json
ConfigDir == <<SEP, "cfg">>

\* String.prototype.toLowerCase, token by token; HOME is the alphabet's
\* only token with upper-case letters.
LowerTok(tok) == IF tok = "HOME" THEN "home" ELSE tok

toLowerCase(s) == [i \in 1..Len(s) |-> LowerTok(s[i])]

StartsWith(s, prefix) ==
  Len(s) >= Len(prefix) /\ SubSeq(s, 1, Len(prefix)) = prefix

\* path.isAbsolute
isAbsolute(p) == p # <<>> /\ p[1] = SEP

DOTDOT == <<".", ".">>

\* normalizeString of path.posix: drops empty and "." segments and
\* resolves ".." against the segments before it.
RECURSIVE NormalizeSegments(_, _, _)
NormalizeSegments(segs, acc, allowAboveRoot) ==
  IF segs = <<>> THEN acc
  ELSE LET s == Head(segs)
           rest == Tail(segs)
       IN  IF s = <<>> \/ s = <<".">>
             THEN NormalizeSegments(rest, acc, allowAboveRoot)
           ELSE IF s = DOTDOT
             THEN IF acc # <<>> /\ acc[Len(acc)] # DOTDOT
                    THEN NormalizeSegments(rest, SubSeq(acc, 1, Len(acc) - 1),
                                           allowAboveRoot)
                  ELSE IF allowAboveRoot
                    THEN NormalizeSegments(rest, Append(acc, s), allowAboveRoot)
                  ELSE NormalizeSegments(rest, acc, allowAboveRoot)
           ELSE NormalizeSegments(rest, Append(acc, s), allowAboveRoot)

normalizeString(p, allowAboveRoot) ==
  JoinWith(NormalizeSegments(SplitOn(p, SEP), <<>>, allowAboveRoot), <<SEP>>)

\* path.normalize
PathNormalize(p) ==
  IF p = <<>> THEN <<".">>
  ELSE LET abs == isAbsolute(p)
           trailing == p[Len(p)] = SEP
           r == normalizeString(p, ~abs)
       IN  IF r = <<>>
             THEN IF abs THEN <<SEP>>
                  ELSE IF trailing THEN <<".", SEP>> ELSE <<".">>
           ELSE (IF abs THEN <<SEP>> ELSE <<>>) \o r
                \o (IF trailing THEN <<SEP>> ELSE <<>>)

\* path.join(a, b)
PathJoin(a, b) ==
  LET joined == IF a = <<>> THEN b
                ELSE IF b = <<>> THEN a
                ELSE a \o <<SEP>> \o b
  IN  PathNormalize(joined)

\* path.resolve(base, p) for an absolute base
PathResolve(base, p) ==
  LET full == IF isAbsolute(p) THEN p
              ELSE IF p = <<>> THEN base
              ELSE base \o <<SEP>> \o p
  IN  <<SEP>> \o normalizeString(full, FALSE)

toPosixPath(value) ==
  [i \in 1..Len(value) |-> IF value[i] = BACKSLASH THEN SEP ELSE value[i]]

\* Lines 1503-1516 of formatPathForConfig, on the normalized path and the
\* normalized home directory.
FormatNormalized(normalized, homeDir) ==
  IF toLowerCase(normalized) = toLowerCase(homeDir) THEN <<"~">>
  ELSE IF StartsWith(toLowerCase(normalized), toLowerCase(homeDir) \o <<SEP>>)
    THEN <<"~", SEP>>
         \o toPosixPath(SubSeq(normalized, Len(homeDir) + 2, Len(normalized)))
  ELSE toPosixPath(normalized)

formatPathForConfig(fullPath) ==
  FormatNormalized(PathNormalize(fullPath), PathNormalize(HomeDir))

\* value.replace(/^[\\/]/, "")
StripLeadingSeparator(s) ==
  IF s # <<>> /\ s[1] \in {SEP, BACKSLASH} THEN Tail(s) ELSE s

\* The absolute path normalizePathInput hands to formatPathForConfig for a
\* trimmed, non-empty input.
ExpandPathInput(trimmed) ==
  IF trimmed[1] = "~"
    THEN PathJoin(HomeDir, StripLeadingSeparator(Tail(trimmed)))
  ELSE IF isAbsolute(trimmed) THEN trimmed
  ELSE PathResolve(ConfigDir, trimmed)

normalizePathInput(value) ==
  IF Trim(value) = <<>> THEN <<>>
  ELSE formatPathForConfig(ExpandPathInput(Trim(value)))

\* Lines 1484-1490 of resolveProjectPathValue: a leading "~" that stands
\* alone or is followed by a separator is replaced by the home directory.
ExpandHome(input) ==
  IF input[1] = "~" /\ (Len(input) = 1 \/ input[2] \in {SEP, BACKSLASH})
    THEN PathJoin(HomeDir, StripLeadingSeparator(Tail(input)))
  ELSE input

\* Lines 1492-1497 of resolveProjectPathValue with the home directory in the
\* place of the config directory.
ResolveExpandedFromHome(expanded) ==
  PathNormalize(IF isAbsolute(expanded) THEN expanded
                ELSE PathResolve(HomeDir, expanded))

\* Lines 1492-1497 of resolveProjectPathValue.
ResolveExpanded(expanded) ==
  PathNormalize(IF isAbsolute(expanded) THEN expanded
                ELSE PathResolve(ConfigDir, expanded))

resolveProjectPathValue(rawPath) ==
  IF Trim(rawPath) = <<>> THEN <<>>
  ELSE ResolveExpanded(ExpandHome(Trim(rawPath)))

(***************************************************************************)
(* Keys of the persisted document and structural path keys                 *)
(***************************************************************************)
PROJECTS == <<"projects">>

LABEL == <<"label">>

PATH == <<"path">>

ICON == <<"icon">>

ROOT_KEY == <<"__root__">>

joinConfigPath(base, key) ==
  IF base = <<>> THEN key ELSE base \o <<".">> \o key

buildProjectKey(base, index) ==
  base \o <<".", "projects", "[">> \o NumToStr(index) \o <<"]">>

\* recordIssue(key, message): one more entry of the issue map.
Issue(key, message) == [key |-> key, msg |-> message]

RECURSIVE Flatten(_)
Flatten(seqs) ==
  IF seqs = <<>> THEN <<>> ELSE Head(seqs) \o Flatten(Tail(seqs))

(***************************************************************************)
(* Validation and normalization.  Every operator returns the normalized    *)
(* value together with the issues recorded on the way, in recording order. *)
(***************************************************************************)
IsNonBlankString(v) == IsString(v) /\ Trim(v.s) # <<>>

\* Lines 1958-2001 of normalizeProject: the entry built from the three
\* properties of a plain object, and the issues recorded for them.
NormalizedProject(labelValue, pathValue, iconValue, pathKey) ==
  [value |->
     Obj(<<Ent(LABEL, IF IsNonBlankString(labelValue) THEN labelValue
                      ELSE Str(<<"Untitled">>)),
           Ent(PATH, IF IsNonBlankString(pathValue) THEN pathValue
                     ELSE Str(<<>>)),
           Ent(ICON, IF IsNonBlankString(iconValue) THEN Str(Trim(iconValue.s))
                     ELSE Undefined)>>),
   issues |->
     (IF ~IsNonBlankString(labelValue)
        THEN <<Issue(pathKey \o <<".", "label">>, "error.labelRequired")>>
        ELSE <<>>)
     \o (IF ~IsNonBlankString(pathValue)
           THEN <<Issue(pathKey \o <<".", "path">>, "error.pathRequired")>>
           ELSE <<>>)
     \o (IF iconValue # Undefined /\ ~IsNonBlankString(iconValue)
           THEN <<Issue(pathKey \o <<".", "icon">>, "error.iconString")>>
           ELSE <<>>)]

\* normalizeProject with a placeholder whose label is blank.
normalizeProjectBlankPlaceholder(value, pathKey) ==
  IF ~isPlainObject(value)
    THEN [value |-> Obj(<<Ent(LABEL, Str(<<>>)), Ent(PATH, Str(<<>>))>>),
          issues |-> <<Issue(pathKey, "error.projectShape")>>]
  ELSE NormalizedProject(GetProp(value, LABEL), GetProp(value, PATH),
                         GetProp(value, ICON), pathKey)

normalizeProject(value, pathKey) ==
  IF ~isPlainObject(value)
    THEN [value |-> Obj(<<Ent(LABEL, Str(<<"Invalid project">>)),
                          Ent(PATH, Str(<<>>))>>),
          issues |-> <<Issue(pathKey, "error.projectShape")>>]
  ELSE NormalizedProject(GetProp(value, LABEL), GetProp(value, PATH),
                         GetProp(value, ICON), pathKey)

\* The values and the issues of a sequence of normalization results.
Collect(results) ==
  [value |-> Arr([i \in 1..Len(results) |-> results[i].value]),
   issues |-> Flatten([i \in 1..Len(results) |-> results[i].issues])]

\* The map of the list with the entries that are not plain objects left
\* out of it.
NormalizeProjectsDropping(items, base) ==
  Collect([i \in 1..Len(SelectSeq(items, isPlainObject)) |->
             normalizeProject(SelectSeq(items, isPlainObject)[i],
                              buildProjectKey(base, i - 1))])

\* projectsValue.map((proj, index) => normalizeProject(proj, key(index)))
NormalizeProjects(items, base) ==
  Collect([i \in 1..Len(items) |->
             normalizeProject(items[i], buildProjectKey(base, i - 1))])

\* acc with node[key] = r.value and the issues of r.
Assign(acc, key, r) ==
  [value |-> SetProp(acc.value, key, r.value), issues |-> acc.issues \o r.issues]

\* acc with one more issue.
Record(acc, key, message) ==
  [value |-> acc.value, issues |-> Append(acc.issues, Issue(key, message))]

RECURSIVE normalizeCategoryNode(_, _)
RECURSIVE NormalizeCategoryEntries(_, _, _)
\* The loop over Object.entries(source) of normalizeCategoryNode, from
\* entry i on; acc is the node built so far with the issues so far.
NormalizeCategoryEntries(source, pathKey, acc) ==
  IF source = <<>> THEN acc
  ELSE NormalizeCategoryEntries(Tail(source), pathKey,
         IF Head(source).k = PROJECTS THEN acc
         ELSE IF isPlainObject(Head(source).v)
           THEN Assign(acc, Head(source).k,
                       normalizeCategoryNode(Head(source).v,
                                             joinConfigPath(pathKey, Head(source).k)))
         ELSE Assign(acc, Head(source).k,
                     [value |-> Head(source).v, issues |-> <<>>]))

normalizeCategoryNode(source, pathKey) ==
  NormalizeCategoryEntries(source.ents, pathKey,
    IF KeyIndex(source, PROJECTS) = 0
      THEN [value |-> EmptyObject, issues |-> <<>>]
    ELSE IF IsArray(GetProp(source, PROJECTS))
      THEN Assign([value |-> EmptyObject, issues |-> <<>>], PROJECTS,
                  NormalizeProjects(GetProp(source, PROJECTS).items, pathKey))
    ELSE Record([value |-> EmptyObject, issues |-> <<>>],
                pathKey \o <<".", "projects">>, "error.projectsArray"))

\* The loop over Object.entries(raw) of validateAndNormalizeConfig.
RECURSIVE NormalizeRootEntries(_, _)
NormalizeRootEntries(source, acc) ==
  IF source = <<>> THEN acc
  ELSE NormalizeRootEntries(Tail(source),
         IF Head(source).k = PROJECTS
           THEN IF IsArray(Head(source).v)
                  THEN Assign(acc, PROJECTS,
                              NormalizeProjects(Head(source).v.items, ROOT_KEY))
                ELSE Record(acc, ROOT_KEY \o <<".", "projects">>,
                            "error.projectsArray")
         ELSE IF ~isPlainObject(Head(source).v)
           THEN Record(acc, Head(source).k, "error.categoryShape")
         ELSE Assign(acc, Head(source).k,
                     normalizeCategoryNode(Head(source).v, Head(source).k)))

validateAndNormalizeConfig(raw) ==
  IF ~isPlainObject(raw)
    THEN [value |-> EmptyObject,
          issues |-> <<Issue(ROOT_KEY, "error.configShape")>>]
  ELSE NormalizeRootEntries(raw.ents, [value |-> EmptyObject, issues |-> <<>>])

(***************************************************************************)
(* The config file.  Its text is kept as the JSON value it parses to; a    *)
(* text that is empty or does not parse is kept by kind.                   *)
(***************************************************************************)
MissingFile == [kind |-> "missing"]

BlankFile == [kind |-> "blank"]

InvalidFile == [kind |-> "invalid"]

JsonFile(v) == [kind |-> "json", json |-> v]

\* JSON.stringify: a property whose value is undefined is left out.
RECURSIVE Stringify(_)
Stringify(v) ==
  IF isPlainObject(v)
    THEN LET kept == SelectSeq(v.ents, LAMBDA e : e.v # Undefined)
         IN  Obj([i \in 1..Len(kept) |-> Ent(kept[i].k, Stringify(kept[i].v))])
  ELSE IF IsArray(v)
    THEN Arr([i \in 1..Len(v.items) |-> Stringify(v.items[i])])
  ELSE v

\* The content saveConfigToDisk hands to writeFile.
saveConfigToDisk(cfg) == JsonFile(Stringify(cfg))

\* handleValidationWarning without the reset of hadValidationErrors on a
\* load that ends with no issue.
handleValidationWarningSticky(issues, had) ==
  IF issues # <<>> /\ ~had THEN [had |-> TRUE, warned |-> TRUE]
  ELSE [had |-> had, warned |-> FALSE]

\* handleValidationWarning: the new hadValidationErrors and whether the
\* warning is shown.
handleValidationWarning(issues, had) ==
  IF issues # <<>> /\ ~had THEN [had |-> TRUE, warned |-> TRUE]
  ELSE IF issues = <<>> THEN [had |-> FALSE, warned |-> FALSE]
  ELSE [had |-> had, warned |-> FALSE]

\* The result of a load that read r: the tree, the issue map, and the
\* warning state w.
Loaded(r, w) ==
  [config |-> r.value, issues |-> r.issues, had |-> w.had, warned |-> w.warned]

\* Lines 1796-1804 of loadConfig, for what lines 1774-1795 read.
FinishLoad(r, had) == Loaded(r, handleValidationWarning(r.issues, had))

\* loadConfig without the recordIssue of the catch block.
loadConfigUnrecorded(f, had) ==
  FinishLoad(IF f.kind \in {"missing", "blank", "invalid"}
               THEN [value |-> EmptyObject, issues |-> <<>>]
             ELSE validateAndNormalizeConfig(f.json),
             had)

\* loadConfig: the tree, the issue map and the warning state after a load
\* of file f.
loadConfig(f, had) ==
  FinishLoad(IF f.kind \in {"missing", "blank"}
               THEN [value |-> EmptyObject, issues |-> <<>>]
             ELSE IF f.kind = "invalid"
               THEN [value |-> EmptyObject,
                     issues |-> <<Issue(ROOT_KEY, "error.configRead")>>]
             ELSE validateAndNormalizeConfig(f.json),
             had)

(***************************************************************************)
(* Tree store.  A node kept by reference is addressed by its path in the   *)
(* tree generation it was found in; ReplaceNodeAt is the mutation of that  *)
(* object in place.                                                        *)
(***************************************************************************)
pathsEqual(a, b) ==
  Len(a) = Len(b) /\ \A i \in 1..Len(a) : a[i] = b[i]

isSameOrDescendantPath(path, ancestor) ==
  /\ Len(ancestor) # 0
  /\ Len(path) >= Len(ancestor)
  /\ \A i \in 1..Len(ancestor) : path[i] = ancestor[i]

RECURSIVE getCategoryNodeByPath(_, _)
getCategoryNodeByPath(cfg, pathSegments) ==
  IF pathSegments = <<>> THEN cfg
  ELSE LET next == GetProp(cfg, Head(pathSegments))
       IN  IF ~isPlainObject(next) THEN Undefined
           ELSE getCategoryNodeByPath(next, Tail(pathSegments))

\* The tree with the object found at pathSegments replaced by node.
RECURSIVE ReplaceNodeAt(_, _, _)
ReplaceNodeAt(cfg, pathSegments, node) ==
  IF pathSegments = <<>> THEN node
  ELSE SetProp(cfg, Head(pathSegments),
               ReplaceNodeAt(GetProp(cfg, Head(pathSegments)),
                             Tail(pathSegments), node))

\* The tree after getOrCreateCategoryNode(pathSegments): a segment whose
\* value is not a plain object is (re)assigned an empty node.
RECURSIVE getOrCreateCategoryNode(_, _)
getOrCreateCategoryNode(cfg, pathSegments) ==
  IF pathSegments = <<>> THEN cfg
  ELSE LET existing == GetProp(cfg, Head(pathSegments))
       IN  IF isPlainObject(existing)
             THEN SetProp(cfg, Head(pathSegments),
                          getOrCreateCategoryNode(existing, Tail(pathSegments)))
           ELSE SetProp(cfg, Head(pathSegments),
                        getOrCreateCategoryNode(EmptyObject, Tail(pathSegments)))

ParentOf(pathSegments) == SubSeq(pathSegments, 1, Len(pathSegments) - 1)

LastOf(pathSegments) == pathSegments[Len(pathSegments)]

\* getCategoryContainer: whether the category has a container, the
\* container's path and the key under which it holds the category.
getCategoryContainer(cfg, pathSegments) ==
  IF pathSegments = <<>> THEN [found |-> FALSE, parent |-> <<>>, key |-> <<>>]
  ELSE LET parentNode == getCategoryNodeByPath(cfg, ParentOf(pathSegments))
       IN  IF parentNode = Undefined
                \/ ~isPlainObject(GetProp(parentNode, LastOf(pathSegments)))
             THEN [found |-> FALSE, parent |-> <<>>, key |-> <<>>]
           ELSE [found |-> TRUE, parent |-> ParentOf(pathSegments),
                 key |-> LastOf(pathSegments)]

\* walkCategoryTree: the paths of node and of the categories below it, in
\* pre-order.
RECURSIVE walkCategoryTree(_, _)
walkCategoryTree(node, pathSegments) ==
  <<pathSegments>>
  \o Flatten([i \in 1..Len(node.ents) |->
       IF node.ents[i].k # PROJECTS /\ isPlainObject(node.ents[i].v)
         THEN walkCategoryTree(node.ents[i].v, Append(pathSegments, node.ents[i].k))
         ELSE <<>>])

collectCategoryNodes(cfg) ==
  Flatten([i \in 1..Len(cfg.ents) |->
    IF cfg.ents[i].k # PROJECTS /\ isPlainObject(cfg.ents[i].v)
      THEN walkCategoryTree(cfg.ents[i].v, <<cfg.ents[i].k>>)
      ELSE <<>>])

categoryHasContent(node) ==
  \/ IsArray(GetProp(node, PROJECTS)) /\ Len(GetProp(node, PROJECTS).items) > 0
  \/ \E i \in 1..Len(node.ents) :
       node.ents[i].k # PROJECTS /\ isPlainObject(node.ents[i].v)

\* node.projects.push(project), after node.projects = [] when it is no array
PushProject(node, project) ==
  LET n == IF IsArray(GetProp(node, PROJECTS)) THEN node
           ELSE SetProp(node, PROJECTS, Arr(<<>>))
  IN  SetProp(n, PROJECTS, Arr(Append(GetProp(n, PROJECTS).items, project)))

\* target.projects.push(...source.projects) of the two merge functions
PushProjectsOf(target, source) ==
  IF IsArray(GetProp(source, PROJECTS)) /\ Len(GetProp(source, PROJECTS).items) > 0
    THEN LET n == IF IsArray(GetProp(target, PROJECTS)) THEN target
                  ELSE SetProp(target, PROJECTS, Arr(<<>>))
         IN  SetProp(n, PROJECTS,
                     Arr(GetProp(n, PROJECTS).items \o GetProp(source, PROJECTS).items))
  ELSE target

RECURSIVE mergeCategoryNodes(_, _)
RECURSIVE MergeEntries(_, _)
\* The loop over Object.entries(source) of mergeCategoryNodes and of
\* mergeCategoryIntoRoot.
MergeEntries(target, source) ==
  IF source = <<>> THEN target
  ELSE LET e == Head(source)
           existing == GetProp(target, e.k)
       IN  IF e.k = PROJECTS THEN MergeEntries(target, Tail(source))
           ELSE IF isPlainObject(e.v) /\ isPlainObject(existing)
             THEN MergeEntries(SetProp(target, e.k, mergeCategoryNodes(existing, e.v)),
                               Tail(source))
           ELSE MergeEntries(SetProp(target, e.k, e.v), Tail(source))

mergeCategoryNodes(target, source) ==
  MergeEntries(PushProjectsOf(target, source), source.ents)

mergeCategoryIntoRoot(root, source) ==
  MergeEntries(PushProjectsOf(root, source), source.ents)

(***************************************************************************)
(* Tree items and getChildren                                              *)
(***************************************************************************)
NoItem ==
  [nodeType |-> "none", label |-> <<>>, configPath |-> <<>>,
   categoryPath |-> <<>>, projectIndex |-> -1]

createCategoryTreeItem(label, configPath, categoryPath) ==
  [nodeType |-> "category", label |-> label, configPath |-> configPath,
   categoryPath |-> categoryPath, projectIndex |-> -1]

createProjectTreeItem(project, configPath, categoryPath, index) ==
  [nodeType |-> "project", label |-> GetProp(project, LABEL).s,
   configPath |-> configPath, categoryPath |-> categoryPath,
   projectIndex |-> index]

\* typeof value === "object" && value !== null
IsObjectValue(v) == v.t \in {"object", "array"}

\* getChildren(undefined)
RootChildren(cfg) ==
  LET cats == SelectSeq(cfg.ents,
                LAMBDA e : e.k # PROJECTS /\ isPlainObject(e.v))
      rootProjects == GetProp(cfg, PROJECTS)
  IN  [i \in 1..Len(cats) |->
         createCategoryTreeItem(cats[i].k, cats[i].k, <<cats[i].k>>)]
      \o (IF IsArray(rootProjects)
            THEN [i \in 1..Len(rootProjects.items) |->
                    createProjectTreeItem(rootProjects.items[i],
                      buildProjectKey(ROOT_KEY, i - 1), <<>>, i - 1)]
            ELSE <<>>)

\* getChildren(element) for a category element whose node is node
CategoryChildren(node, element) ==
  LET ps == GetProp(node, PROJECTS)
      subs == SelectSeq(node.ents, LAMBDA e : e.k # PROJECTS /\ IsObjectValue(e.v))
  IN  (IF IsArray(ps)
         THEN [i \in 1..Len(ps.items) |->
                 createProjectTreeItem(ps.items[i],
                   buildProjectKey(element.configPath, i - 1),
                   element.categoryPath, i - 1)]
         ELSE <<>>)
      \o [i \in 1..Len(subs) |->
            createCategoryTreeItem(subs[i].k,
              joinConfigPath(element.configPath, subs[i].k),
              Append(element.categoryPath, subs[i].k))]

Range(s) == {s[i] : i \in 1..Len(s)}

\* Every item the view can show below a category element.
RECURSIVE ItemsBelow(_, _)
ItemsBelow(node, element) ==
  LET children == CategoryChildren(node, element)
  IN  Range(children)
      \cup UNION {IF c.nodeType = "category"
                       /\ isPlainObject(GetProp(node, LastOf(c.categoryPath)))
                    THEN ItemsBelow(GetProp(node, LastOf(c.categoryPath)), c)
                    ELSE {} : c \in Range(children)}

\* Every item of the view of tree cfg.
AllItems(cfg) ==
  Range(RootChildren(cfg))
  \cup UNION {IF c.nodeType = "category"
                THEN ItemsBelow(GetProp(cfg, c.label), c) ELSE {}
              : c \in Range(RootChildren(cfg))}

\* parseProjectConfigPath: ok is FALSE where the code returns undefined.
parseProjectConfigPath(configPath) ==
  LET n == Len(configPath)
      \* the last ".projects[" of the string
      starts == {i \in 1..n : /\ i + 4 <= n
                              /\ SubSeq(configPath, i, i + 2) = <<".", "projects", "[">>
                              /\ configPath[n] = "]"
                              /\ \A j \in (i + 3)..(n - 1) : IsDigit(configPath[j])}
  IN  IF starts = {} THEN [ok |-> FALSE, path |-> <<>>, index |-> -1]
      ELSE LET i == CHOOSE j \in starts : TRUE
               categoryPart == SubSeq(configPath, 1, i - 1)
               index == StrToNum(SubSeq(configPath, i + 3, n - 1))
               trimmedSegs == [k \in 1..Len(SplitOn(categoryPart, ".")) |->
                                 Trim(SplitOn(categoryPart, ".")[k])]
               pathSegments == SelectSeq(trimmedSegs, LAMBDA seg : seg # <<>>)
           IN  IF pathSegments = <<>> THEN [ok |-> FALSE, path |-> <<>>, index |-> -1]
               ELSE IF pathSegments = <<ROOT_KEY>>
                 THEN [ok |-> TRUE, path |-> <<>>, index |-> index]
               ELSE [ok |-> TRUE, path |-> pathSegments, index |-> index]

\* categoryNode.projects of the node at pathSegments of tree
ProjectsAt(tree, pathSegments) ==
  GetProp(getCategoryNodeByPath(tree, pathSegments), PROJECTS)

\* Lines 2153-2174 of resolveProjectReference: the reference to entry index
\* of the category at categoryPath, ok FALSE when tree cfg has no such entry.
ReferenceAt(cfg, categoryPath, index) ==
  IF \/ getCategoryNodeByPath(cfg, categoryPath) = Undefined
     \/ ~IsArray(ProjectsAt(cfg, categoryPath))
     \/ index < 0
     \/ index >= Len(ProjectsAt(cfg, categoryPath).items)
    THEN [ok |-> FALSE, path |-> <<>>, index |-> -1]
  ELSE [ok |-> TRUE, path |-> categoryPath, index |-> index]

\* The category path and index an item names: those parsed from its
\* configPath, else those it carries.
ItemTarget(parsed, item) ==
  IF parsed.ok THEN parsed ELSE [ok |-> TRUE, path |-> item.categoryPath,
                                 index |-> item.projectIndex]

\* resolveProjectReference, after the check of the item's node type.
ResolveTarget(cfg, target) == ReferenceAt(cfg, target.path, target.index)

resolveProjectReference(cfg, item) ==
  ResolveTarget(cfg, ItemTarget(parseProjectConfigPath(item.configPath), item))

\* resolveCategoryPath, after the check of the item's node type
resolveCategoryPath(item) ==
  IF Len(item.categoryPath) > 0 THEN item.categoryPath ELSE <<item.label>>

\* value.split("/").map(trim).filter(nonempty)
normalizeCategorySegments(value) ==
  LET parts == SplitOn(value, SEP)
  IN  SelectSeq([i \in 1..Len(parts) |-> Trim(parts[i])], LAMBDA seg : seg # <<>>)

(***************************************************************************)
(* Bounds and inputs of the model                                          *)
(***************************************************************************)
\* Commands the user starts in one behaviour.
MaxCommands == 1

\* Edits of projects.json by another process in one behaviour.
MaxExternalEdits == 1

\* A project entry of the persisted document.
JsonProject(label) ==
  Obj(<<Ent(LABEL, Str(<<label>>)), Ent(PATH, Str(<<SEP, label>>))>>)

ProjectList(labels) == Arr([i \in 1..Len(labels) |-> JsonProject(labels[i])])

\* {"projects":[r1], "Work":{"projects":[a1,a2], "Lib":{"projects":[b1]}},
\*  "Lib":{"projects":[c1]}}
DocNested ==
  Obj(<<Ent(PROJECTS, ProjectList(<<"r1">>)),
        Ent(<<"Work">>,
            Obj(<<Ent(PROJECTS, ProjectList(<<"a1", "a2">>)),
                  Ent(<<"Lib">>, Obj(<<Ent(PROJECTS, ProjectList(<<"b1">>))>>))>>)),
        Ent(<<"Lib">>, Obj(<<Ent(PROJECTS, ProjectList(<<"c1">>))>>))>>)

\* {"Work":{"projects":[a1], "Lib":5}, "Lib":{"projects":[c1]}}
DocScalar ==
  Obj(<<Ent(<<"Work">>,
            Obj(<<Ent(PROJECTS, ProjectList(<<"a1">>)), Ent(<<"Lib">>, Num)>>)),
        Ent(<<"Lib">>, Obj(<<Ent(PROJECTS, ProjectList(<<"c1">>))>>))>>)

\* What projects.json holds when the extension is activated.
InitialFiles == {JsonFile(DocNested), JsonFile(DocScalar)}

\* What another process writes to projects.json.
ExternalFiles == {JsonFile(DocNested), MissingFile}

\* Answers to the prompts for a category name.
CategoryNameInputs == {<<"Lib">>, <<"New", SEP, " ", "Sub">>, PROJECTS, <<SP>>}

\* Answers to the name prompt of renameCategory.
RenameInputs == {<<"Lib">>, <<"Ren", SP>>, PROJECTS, <<"a", SEP, "b">>}
\* Answers to the folder dialog and to the label prompt of addProject.
FolderInputs == {<<SEP, "home", SEP, "w">>, <<SEP, "HOME", SEP, "w">>}

LabelInputs == {<<"n1", SP>>, <<SP>>}

\* Answers to the three prompts of editProject.
EditLabelInputs == {<<SP, "e1">>}

EditPathInputs == {<<"~", SEP, "w">>}

EditIconInputs == {<<>>, <<"beaker">>}

(***************************************************************************)
(* State                                                                   *)
(***************************************************************************)
VARIABLES
  file,                 \* projects.json on disk
  config,               \* this.config
  validationIssues,     \* this.validationIssues, in recording order
  hadValidationErrors,  \* this.hadValidationErrors
  lastLoad,             \* the last call of loadConfig (history)
  watcher,              \* this.watcher: "none", or what it watches
  watcherDebounce,      \* this.watcherDebounce is set
  watcherRetryTimeout,  \* this.watcherRetryTimeout is set
  timers,               \* timeouts of the watcher pending in the host, and
                        \* the change events not yet answered by a reload
  fsEvent,              \* a change event is queued for the open watcher
  viewStale,            \* the tree was loaded and observers not yet notified
  cmd,                  \* the command in progress and its local variables
  ev,                   \* the last mutation step of a command (history)
  nCommands,            \* commands started
  nEdits,               \* external edits made
  call                  \* the path operation applied last (history)

vars ==
  <<file, config, validationIssues, hadValidationErrors, lastLoad, watcher,
    watcherDebounce, watcherRetryTimeout, timers, fsEvent, viewStale, cmd,
    ev, nCommands, nEdits, call>>

\* The command record when no command runs.
Idle ==
  [op |-> "idle", pc |-> "done", item |-> NoItem, msg |-> "none",
   label |-> <<>>, path |-> <<>>, icon |-> <<>>, name |-> <<>>,
   catPath |-> <<>>,
   refHeld |-> FALSE, refFresh |-> FALSE, refTree |-> EmptyObject,
   refPath |-> <<>>, refIndex |-> -1,
   tgtHeld |-> FALSE, tgtFresh |-> FALSE, tgtTree |-> EmptyObject,
   content |-> MissingFile, wstage |-> "none", success |-> "none"]

\* The history record when no mutation step has been taken.
NoEvent ==
  [op |-> "none", outcome |-> "none",
   refPath |-> <<>>, refIndex |-> -1, tgtPath |-> <<>>, project |-> Undefined,
   name |-> <<>>,
   refFresh |-> FALSE, tgtFresh |-> FALSE,
   refPre |-> EmptyObject, refPost |-> EmptyObject,
   tgtPre |-> EmptyObject, tgtPost |-> EmptyObject,
   cfgPre |-> EmptyObject, cfgPost |-> EmptyObject,
   filePre |-> MissingFile,
   saved |-> FALSE, written |-> MissingFile, reloaded |-> EmptyObject]

\* The record of path operations when none has been applied.
NoCall == [op |-> "none", arg |-> <<>>, portable |-> <<>>, absolute |-> <<>>]

fileExists == file.kind # "missing"


watcherVars ==
  <<watcher, watcherDebounce, watcherRetryTimeout, timers, fsEvent>>

\* No timeout is pending.
NoTimers == [debounce |-> 0, restart |-> 0, burst |-> 0]

\* The delays of the two timeouts, in milliseconds.
DebounceDelay == 200

RestartDelay == 1000

\* clearTimeout left out: the timeout stays pending.
LeaveTimeout(pending, handle) == pending

\* if (handle) clearTimeout(handle): the timeout the handle names is
\* cancelled.
ClearTimeout(pending, handle) == IF handle THEN pending - 1 ELSE pending

\* disposeWatcher() without the clearTimeout of the restart timeout.
disposeWatcherKeepingRestart(t) ==
  [t EXCEPT !.debounce = ClearTimeout(t.debounce, watcherDebounce)]

\* The pending timeouts after disposeWatcher().
disposeWatcher(t) ==
  [t EXCEPT !.debounce = ClearTimeout(t.debounce, watcherDebounce),
            !.restart = ClearTimeout(t.restart, watcherRetryTimeout)]

loadVars == <<config, validationIssues, hadValidationErrors, lastLoad>>

counters == <<nCommands, nEdits>>

\* this.validationIssues.clear() without the clearing.
KeepIssues(issues) == issues

\* this.validationIssues.clear()
ClearIssues(issues) == <<>>

\* The history record of a load that read f and ended as r: the tree and
\* whether the issue map was empty before it, whether it showed the
\* warning, and the tree it put in this.config.
LoadRecord(f, r) ==
  [first |-> FALSE, read |-> f, before |-> config,
   prevClean |-> validationIssues = <<>>,
   warned |-> r.warned, tree |-> r.config]

\* The issue map and the warning state become those of the load r of f.
LoadIssues(f, r) ==
  /\ validationIssues' = ClearIssues(validationIssues) \o r.issues
  /\ hadValidationErrors' = r.had
  /\ lastLoad' = LoadRecord(f, r)

\* this.config, the issue map and the warning state become those of the
\* load r of f.
LoadInto(f, r) ==
  /\ config' = r.config
  /\ LoadIssues(f, r)

\* The command record once loadConfig has replaced the tree old: the nodes
\* the command holds now belong to a generation that is no longer loaded.
Invalidate(c, old) ==
  [c EXCEPT !.refTree = IF c.refHeld /\ c.refFresh THEN old ELSE @,
            !.refFresh = FALSE,
            !.tgtTree = IF c.tgtHeld /\ c.tgtFresh THEN old ELSE @,
            !.tgtFresh = FALSE]

\* The command returns without showing its notification.
FinishUnnotified(c, msg) == [Idle EXCEPT !.op = c.op, !.item = c.item]

\* The command returns, having shown notification msg ("none": silently).
Finish(c, msg) == [Idle EXCEPT !.op = c.op, !.item = c.item, !.msg = msg]

\* persistChanges(success) up to the await of writeFile: the content is
\* serialized from the tree cfg now, the write itself completes later.
BeginPersist(c, cfg, success) ==
  [Idle EXCEPT !.op = c.op, !.item = c.item, !.pc = "write",
               !.content = saveConfigToDisk(cfg), !.wstage = "queued",
               !.success = success]

\* A change of projects.json queues an event for the open watcher.
QueueFsEvent == fsEvent' = (watcher # "none")

(***************************************************************************)
(* Construction: loadConfig(), setupWatcher()                              *)
(***************************************************************************)
Init ==
  /\ file \in InitialFiles
  /\ \E r \in {loadConfig(file, FALSE)} :
       /\ config = r.config
       /\ validationIssues = r.issues
       /\ hadValidationErrors = r.had
       /\ lastLoad = [first |-> TRUE, read |-> file, before |-> EmptyObject,
                     prevClean |-> TRUE,
                       warned |-> r.warned, tree |-> r.config]
  /\ watcher = IF file.kind # "missing" THEN "file" ELSE "dir"
  /\ watcherDebounce = FALSE
  /\ watcherRetryTimeout = FALSE
  /\ timers = NoTimers
  /\ fsEvent = FALSE
  /\ viewStale = FALSE
  /\ cmd = Idle
  /\ ev = NoEvent
  /\ nCommands = 0
  /\ nEdits = 0
  /\ call = NoCall

(***************************************************************************)
(* The file system, the watcher and its timers                             *)
(***************************************************************************)
\* Another process replaces, creates or deletes projects.json.
ExternalEdit ==
  /\ nEdits < MaxExternalEdits
  /\ \E f \in ExternalFiles : file' = f
  /\ nEdits' = nEdits + 1
  /\ QueueFsEvent
  /\ UNCHANGED <<call, loadVars, watcher, watcherDebounce, watcherRetryTimeout, timers,
                 viewStale, cmd, ev, nCommands>>

\* The callback of fs.watch: scheduleWatcherRestart() when the watched
\* target no longer matches the file, then scheduleConfigReload().
WatchEvent ==
  /\ watcher # "none"
  /\ fsEvent
  /\ LET restart == \/ watcher = "dir" /\ fileExists
                    \/ watcher = "file" /\ ~fileExists
     IN  /\ watcher' = IF restart THEN "none" ELSE watcher
         /\ watcherRetryTimeout' = IF restart THEN TRUE ELSE watcherRetryTimeout
         /\ timers' = [debounce |-> ClearTimeout(timers.debounce, watcherDebounce) + 1,
                       restart |-> IF restart
                                     THEN disposeWatcher(timers).restart + 1
                                   ELSE timers.restart,
                       burst |-> timers.burst + 1]
         /\ fsEvent' = FALSE
  /\ watcherDebounce' = TRUE
  /\ UNCHANGED <<call, file, loadVars, viewStale, cmd, ev, counters>>

\* The debounce timer of scheduleConfigReload fires: loadConfig(), fire().
DebounceFire ==
  /\ timers.debounce > 0
  /\ watcherDebounce' = FALSE
  /\ timers' = [timers EXCEPT !.debounce = @ - 1, !.burst = 0]
  /\ LoadInto(file, loadConfig(file, hadValidationErrors))
  /\ viewStale' = FALSE
  /\ cmd' = IF cmd.pc # "done" THEN Invalidate(cmd, config) ELSE cmd
  /\ UNCHANGED <<call, file, watcher, watcherRetryTimeout, fsEvent, ev,
                 counters>>

\* The timer of scheduleWatcherRestart fires: setupWatcher().  A reload
\* scheduled by the callback that scheduled the restart has the shorter
\* delay and runs first.
RetryFire ==
  /\ timers.restart > 0
  /\ ~(timers.debounce > 0 /\ DebounceDelay < RestartDelay)
  /\ watcher' = IF fileExists THEN "file" ELSE "dir"
  /\ watcherDebounce' = FALSE
  /\ watcherRetryTimeout' = FALSE
  /\ timers' = [debounce |-> ClearTimeout(timers.debounce, watcherDebounce),
                restart |-> timers.restart - 1,
                burst |-> timers.burst]
  /\ fsEvent' = FALSE
  /\ UNCHANGED <<call, file, loadVars, viewStale, cmd, ev, counters>>

(***************************************************************************)
(* saveConfigToDisk and the rest of persistChanges                         *)
(***************************************************************************)
\* writeFile opens projects.json for writing, which truncates it.
WriteOpen ==
  /\ cmd.pc = "write"
  /\ cmd.wstage = "queued"
  /\ file' = BlankFile
  /\ cmd' = [cmd EXCEPT !.wstage = "truncated"]
  /\ QueueFsEvent
  /\ UNCHANGED <<call, loadVars, watcher, watcherDebounce, watcherRetryTimeout, timers,
                 viewStale, ev, counters>>

\* writeFile completes; persistChanges goes on with loadConfig(),
\* setupWatcher(), fire() and the success message.
WriteDone ==
  /\ cmd.pc = "write"
  /\ cmd.wstage = "truncated"
  /\ file' = cmd.content
  /\ LoadInto(cmd.content, loadConfig(cmd.content, hadValidationErrors))
  /\ watcher' = "file"
  /\ watcherDebounce' = FALSE
  /\ watcherRetryTimeout' = FALSE
  /\ timers' = [disposeWatcher(timers) EXCEPT !.burst = 0]
  /\ fsEvent' = FALSE
  /\ viewStale' = FALSE
  /\ cmd' = Finish(cmd, cmd.success)
  /\ ev' = [ev EXCEPT !.saved = TRUE, !.written = cmd.content,
                      !.reloaded = config']
  /\ UNCHANGED <<call, counters>>

\* writeFile rejects, before or after it truncated the file; the command's
\* catch shows the save error.
WriteFail ==
  /\ cmd.pc = "write"
  /\ cmd' = Finish(cmd, "saveError")
  /\ UNCHANGED <<call, file, loadVars, watcherVars, viewStale, ev, counters>>

(***************************************************************************)
(* refresh()                                                               *)
(***************************************************************************)
Refresh ==
  /\ cmd.op = "idle"
  /\ nCommands < MaxCommands
  /\ nCommands' = nCommands + 1
  /\ LoadInto(file, loadConfig(file, hadValidationErrors))
  /\ viewStale' = FALSE
  /\ UNCHANGED <<call, file, watcherVars, cmd, ev, nEdits>>

(***************************************************************************)
(* Commands.  A command is started with an item of the view (or none) and  *)
(* runs from one await to the next; between two of its steps the watcher,  *)
(* its timers and other processes may act.                                 *)
(***************************************************************************)
\* The history record of a step of command op that ended with outcome and
\* left this.config as cfgPost.
Event(op, outcome, cfgPost) ==
  [NoEvent EXCEPT !.op = op, !.outcome = outcome, !.cfgPre = config,
                  !.cfgPost = cfgPost, !.filePre = file]

\* A command can be started: the host runs one command at a time.
CanStart == cmd.op = "idle" /\ nCommands < MaxCommands

\* The promise of the command that returned settles; the host is ready for
\* the next command.
Settle ==
  /\ cmd.pc = "done"
  /\ cmd.op # "idle"
  /\ cmd' = Idle
  /\ ev' = NoEvent
  /\ UNCHANGED <<call, file, loadVars, watcherVars, viewStale, counters>>

\* The paths pickCategory offers, "Create new category" aside.
CategoryPicks(cfg, includeKeepCurrent, currentPath, includeRootOption) ==
  (IF includeKeepCurrent /\ getCategoryNodeByPath(cfg, currentPath) # Undefined
     THEN {currentPath} ELSE {})
  \cup (IF includeRootOption /\ ~(includeKeepCurrent /\ pathsEqual(currentPath, <<>>))
          THEN {<<>>} ELSE {})
  \cup {c \in Range(collectCategoryNodes(cfg)) :
          ~(includeKeepCurrent /\ pathsEqual(c, currentPath))}

\* The paths pickParentCategoryPath offers.
ParentPicks(cfg, excludePath, currentParentPath) ==
  {currentParentPath}
  \cup (IF Len(currentParentPath) > 0 THEN {<<>>} ELSE {})
  \cup {c \in Range(collectCategoryNodes(cfg)) :
          /\ ~isSameOrDescendantPath(c, excludePath)
          /\ ~pathsEqual(c, currentParentPath)}

\* The tree generation the nodes offered by a picker belong to.
PickerTree == IF cmd.tgtFresh THEN config ELSE cmd.tgtTree

\* The tree generation the command's reference belongs to.
ReferenceTree == IF cmd.refFresh THEN config ELSE cmd.refTree

(***************************************************************************)
(* addCategory                                                             *)
(***************************************************************************)
AddCategoryStart ==
  /\ CanStart
  /\ \E item \in AllItems(config) \cup {NoItem}, forceRoot \in BOOLEAN :
       cmd' = [Idle EXCEPT !.op = "addCategory", !.pc = "name",
                 !.catPath = IF ~forceRoot /\ item.nodeType = "category"
                               THEN item.categoryPath ELSE <<>>]
  /\ LoadInto(file, loadConfig(file, hadValidationErrors))
  /\ viewStale' = TRUE
  /\ ev' = NoEvent
  /\ nCommands' = nCommands + 1
  /\ UNCHANGED <<call, file, watcherVars, nEdits>>

\* addCategory from the answer of the name prompt: the notification, and
\* the tree left in this.config.
AddCategoryOutcome(cfg, basePath, newSegments) ==
  IF newSegments = <<>>
    THEN [outcome |-> "invalid", msg |-> "error.nameValidation", tree |-> cfg]
  ELSE IF getCategoryNodeByPath(cfg, basePath \o newSegments) # Undefined
    THEN [outcome |-> "duplicate", msg |-> "error.duplicate", tree |-> cfg]
  ELSE [outcome |-> "mutated", msg |-> "info",
        tree |-> getOrCreateCategoryNode(cfg, basePath \o newSegments)]

AddCategoryName ==
  /\ cmd.op = "addCategory" /\ cmd.pc = "name"
  /\ \/ /\ cmd' = Finish(cmd, "none")
        /\ UNCHANGED <<config, ev>>
     \/ \E nameInput \in CategoryNameInputs :
          \E r \in {AddCategoryOutcome(config, cmd.catPath,
                                       normalizeCategorySegments(nameInput))} :
            /\ config' = r.tree
            /\ cmd' = IF r.outcome = "mutated"
                        THEN BeginPersist(cmd, r.tree, "info")
                      ELSE Finish(cmd, r.msg)
            /\ ev' = [Event("addCategory", r.outcome, r.tree)
                        EXCEPT !.refPath = cmd.catPath,
                               !.tgtPath = cmd.catPath
                                           \o normalizeCategorySegments(nameInput)]
  /\ UNCHANGED <<call, file, validationIssues, hadValidationErrors, lastLoad,
                 watcherVars,
                 viewStale, counters>>

(***************************************************************************)
(* addProject                                                              *)
(***************************************************************************)
AddProjectStart ==
  /\ CanStart
  /\ \E item \in AllItems(config) \cup {NoItem} :
       cmd' = [Idle EXCEPT !.op = "addProject", !.pc = "openDialog",
                           !.item = item]
  /\ ev' = NoEvent
  /\ nCommands' = nCommands + 1
  /\ UNCHANGED <<call, file, loadVars, watcherVars, viewStale, nEdits>>

AddProjectFolder ==
  /\ cmd.op = "addProject" /\ cmd.pc = "openDialog"
  /\ \/ cmd' = Finish(cmd, "none")
     \/ \E folderPath \in FolderInputs :
          cmd' = [cmd EXCEPT !.pc = "label", !.path = folderPath]
  /\ UNCHANGED <<call, file, loadVars, watcherVars, viewStale, ev, counters>>

\* The entry addProject pushes.
NewProject(c) ==
  Obj(<<Ent(LABEL, Str(c.label)), Ent(PATH, Str(formatPathForConfig(c.path)))>>)

\* The tree with project pushed on the list of the node at pathSegments.
PushProjectAt(tree, pathSegments, project) ==
  ReplaceNodeAt(tree, pathSegments,
                PushProject(getCategoryNodeByPath(tree, pathSegments), project))

\* The history record of a step of addProject that pushed project on the
\* node at targetPath of the tree pre, which was this.config when current.
Pushed(pre, current, targetPath, project, post) ==
  [Event("addProject", "mutated", IF current THEN post ELSE config)
     EXCEPT !.cfgPre = IF current THEN pre ELSE config,
            !.tgtPath = targetPath, !.tgtFresh = current,
            !.tgtPre = pre, !.tgtPost = post, !.project = project]

\* The label prompt is answered; addProject loads the file and pushes the
\* project on the node of the item it was started with, or, without such a
\* node, builds the picks of pickCategory.
AddProjectLabel ==
  /\ cmd.op = "addProject" /\ cmd.pc = "label"
  /\ \/ /\ cmd' = Finish(cmd, "none")
        /\ UNCHANGED <<loadVars, viewStale, ev>>
     \/ \E labelInput \in LabelInputs :
          IF Trim(labelInput) = <<>>
            THEN /\ cmd' = Finish(cmd, "none")
                 /\ UNCHANGED <<loadVars, viewStale, ev>>
          ELSE \E r \in {loadConfig(file, hadValidationErrors)},
                  c \in {[cmd EXCEPT !.label = Trim(labelInput)]} :
                 /\ LoadIssues(file, r)
                 /\ viewStale' = TRUE
                 /\ IF /\ cmd.item.nodeType = "category"
                       /\ getCategoryNodeByPath(r.config, cmd.item.categoryPath)
                            # Undefined
                      THEN /\ config' = PushProjectAt(r.config, cmd.item.categoryPath,
                                                      NewProject(c))
                           /\ cmd' = BeginPersist(cmd, config', "info")
                           /\ ev' = Pushed(r.config, TRUE, cmd.item.categoryPath,
                                           NewProject(c), config')
                    ELSE /\ config' = r.config
                         /\ cmd' = [c EXCEPT !.pc = "pickCategory",
                                             !.tgtHeld = TRUE, !.tgtFresh = TRUE]
                         /\ UNCHANGED ev
  /\ UNCHANGED <<call, file, watcherVars, counters>>

\* The quick pick of pickCategory is answered: dismissed, "Create new
\* category", or one of the offered nodes.
AddProjectPick ==
  /\ cmd.op = "addProject" /\ cmd.pc = "pickCategory"
  /\ \/ /\ cmd' = Finish(cmd, "none")
        /\ UNCHANGED <<config, ev>>
     \/ /\ cmd' = [cmd EXCEPT !.pc = "newCategory", !.tgtHeld = FALSE,
                              !.tgtFresh = FALSE, !.tgtTree = EmptyObject]
        /\ UNCHANGED <<config, ev>>
     \/ \E targetPath \in CategoryPicks(PickerTree, FALSE, <<>>, TRUE) :
          \E post \in {PushProjectAt(PickerTree, targetPath, NewProject(cmd))} :
            /\ config' = IF cmd.tgtFresh THEN post ELSE config
            /\ cmd' = BeginPersist(cmd, config', "info")
            /\ ev' = Pushed(PickerTree, cmd.tgtFresh, targetPath,
                            NewProject(cmd), post)
  /\ UNCHANGED <<call, file, validationIssues, hadValidationErrors, lastLoad,
                 watcherVars,
                 viewStale, counters>>

\* promptForNewCategory is answered; the new node is created in the loaded
\* tree and the project pushed on it.
AddProjectNewCategory ==
  /\ cmd.op = "addProject" /\ cmd.pc = "newCategory"
  /\ \/ /\ cmd' = Finish(cmd, "none")
        /\ UNCHANGED <<config, ev>>
     \/ \E categoryInput \in CategoryNameInputs :
          \E pathSegments \in {normalizeCategorySegments(Trim(categoryInput))} :
            IF pathSegments = <<>>
              THEN /\ cmd' = Finish(cmd, "none")
                   /\ UNCHANGED <<config, ev>>
            ELSE /\ config' = PushProjectAt(
                                getOrCreateCategoryNode(config, pathSegments),
                                pathSegments, NewProject(cmd))
                 /\ cmd' = BeginPersist(cmd, config', "info")
                 /\ ev' = Pushed(config, TRUE, pathSegments, NewProject(cmd),
                                 config')
  /\ UNCHANGED <<call, file, validationIssues, hadValidationErrors, lastLoad,
                 watcherVars,
                 viewStale, counters>>

(***************************************************************************)
(* editProject                                                             *)
(***************************************************************************)
\* The command record of editProject and of removeProject once the item is
\* resolved in the loaded tree cfg; pc is where the command goes on.
ResolveItem(c, cfg, reference, pc) ==
  IF c.item.nodeType # "project" THEN Finish(c, "warning.selectProject")
  ELSE IF ~reference.ok THEN Finish(c, "error.projectMissing")
  ELSE [c EXCEPT !.pc = pc, !.refHeld = TRUE, !.refFresh = TRUE,
                 !.refPath = reference.path, !.refIndex = reference.index]

EditProjectStart ==
  /\ CanStart
  /\ LoadInto(file, loadConfig(file, hadValidationErrors))
  /\ \E item \in AllItems(config) \cup {NoItem} :
       cmd' = ResolveItem([Idle EXCEPT !.op = "editProject", !.item = item],
                          config', resolveProjectReference(config', item), "label")
  /\ viewStale' = TRUE
  /\ ev' = NoEvent
  /\ nCommands' = nCommands + 1
  /\ UNCHANGED <<call, file, watcherVars, nEdits>>

EditProjectLabel ==
  /\ cmd.op = "editProject" /\ cmd.pc = "label"
  /\ \/ cmd' = Finish(cmd, "none")
     \/ \E labelInput \in EditLabelInputs :
          cmd' = [cmd EXCEPT !.pc = "path", !.label = labelInput]
  /\ UNCHANGED <<call, file, loadVars, watcherVars, viewStale, ev, counters>>

EditProjectPath ==
  /\ cmd.op = "editProject" /\ cmd.pc = "path"
  /\ \/ cmd' = Finish(cmd, "none")
     \/ \E pathInput \in EditPathInputs :
          cmd' = [cmd EXCEPT !.pc = "icon", !.path = pathInput]
  /\ UNCHANGED <<call, file, loadVars, watcherVars, viewStale, ev, counters>>

\* The icon prompt is answered and pickCategory builds its picks from the
\* tree that is loaded now.
EditProjectIcon ==
  /\ cmd.op = "editProject" /\ cmd.pc = "icon"
  /\ \/ cmd' = Finish(cmd, "none")
     \/ \E iconInput \in EditIconInputs :
          cmd' = [cmd EXCEPT !.pc = "pickCategory", !.icon = iconInput,
                             !.tgtHeld = TRUE, !.tgtFresh = TRUE]
  /\ UNCHANGED <<call, file, loadVars, watcherVars, viewStale, ev, counters>>

\* updatedProject of editProject
UpdatedProject(c) ==
  Obj(<<Ent(LABEL, Str(Trim(c.label))),
        Ent(PATH, Str(normalizePathInput(c.path))),
        Ent(ICON, IF Trim(c.icon) # <<>> THEN Str(Trim(c.icon)) ELSE Undefined)>>)

\* tree after  node.projects[index] = project  on the node at pathSegments
ReplaceProject(tree, pathSegments, index, project) ==
  LET node == getCategoryNodeByPath(tree, pathSegments)
      list == GetProp(node, PROJECTS)
  IN  IF IsArray(list)
        THEN ReplaceNodeAt(tree, pathSegments,
               SetProp(node, PROJECTS,
                       Arr([list.items EXCEPT ![index + 1] = project])))
      ELSE tree

\* tree after  node.projects.splice(index, 1)  on the node at pathSegments
SpliceProject(tree, pathSegments, index) ==
  LET node == getCategoryNodeByPath(tree, pathSegments)
      list == GetProp(node, PROJECTS)
  IN  IF IsArray(list)
        THEN ReplaceNodeAt(tree, pathSegments,
               SetProp(node, PROJECTS, Arr(Splice1(list.items, index))))
      ELSE tree

\* Lines 1130-1144 of editProject.  refTree and tgtTree are the trees the
\* reference's node and the selected node belong to; they are one tree when
\* sameTree.  The result is the two trees after the statements.
EditMutation(refTree, tgtTree, sameTree, refPath, index, tgtPath, project) ==
  IF pathsEqual(refPath, tgtPath)
    THEN LET post == ReplaceProject(refTree, refPath, index, project)
         IN  [ref |-> post, tgt |-> IF sameTree THEN post ELSE tgtTree]
  ELSE LET spliced == SpliceProject(refTree, refPath, index)
       IN  IF sameTree
             THEN LET post == PushProjectAt(spliced, tgtPath, project)
                  IN  [ref |-> post, tgt |-> post]
           ELSE [ref |-> spliced,
                 tgt |-> PushProjectAt(tgtTree, tgtPath, project)]

\* The history record of the mutation m of editProject.
Edited(tgtPre, tgtCurrent, tgtPath, project, m) ==
  [Event("editProject", "mutated", IF tgtCurrent THEN m.tgt ELSE config)
     EXCEPT !.refPath = cmd.refPath, !.refIndex = cmd.refIndex,
            !.tgtPath = tgtPath, !.project = project,
            !.refFresh = cmd.refFresh, !.tgtFresh = tgtCurrent,
            !.refPre = ReferenceTree, !.refPost = m.ref,
            !.tgtPre = tgtPre, !.tgtPost = m.tgt]

\* The step of editProject from the answer of its last prompt to the await
\* in persistChanges.  tgtTree is the tree the selected node belongs to and
\* tgtCurrent tells that it is the loaded tree; tgtPre is that tree when the
\* step began.
EditProjectMutate(tgtPre, tgtTree, tgtCurrent, tgtPath) ==
  \E m \in {EditMutation(IF cmd.refFresh THEN tgtTree ELSE cmd.refTree,
                         tgtTree, cmd.refFresh, cmd.refPath, cmd.refIndex,
                         tgtPath, UpdatedProject(cmd))} :
    /\ config' = IF tgtCurrent THEN m.tgt ELSE config
    /\ cmd' = BeginPersist(cmd, config', "info")
    /\ ev' = Edited(tgtPre, tgtCurrent, tgtPath, UpdatedProject(cmd), m)

EditProjectPick ==
  /\ cmd.op = "editProject" /\ cmd.pc = "pickCategory"
  /\ \/ /\ cmd' = Finish(cmd, "none")
        /\ UNCHANGED <<config, ev>>
     \/ /\ cmd' = [cmd EXCEPT !.pc = "newCategory", !.tgtHeld = FALSE,
                              !.tgtFresh = FALSE, !.tgtTree = EmptyObject]
        /\ UNCHANGED <<config, ev>>
     \/ \E targetPath \in CategoryPicks(PickerTree, TRUE, cmd.refPath, FALSE) :
          EditProjectMutate(PickerTree, PickerTree, cmd.tgtFresh, targetPath)
  /\ UNCHANGED <<call, file, validationIssues, hadValidationErrors, lastLoad,
                 watcherVars,
                 viewStale, counters>>

EditProjectNewCategory ==
  /\ cmd.op = "editProject" /\ cmd.pc = "newCategory"
  /\ \/ /\ cmd' = Finish(cmd, "none")
        /\ UNCHANGED <<config, ev>>
     \/ \E categoryInput \in CategoryNameInputs :
          \E pathSegments \in {normalizeCategorySegments(Trim(categoryInput))} :
            IF pathSegments = <<>>
              THEN /\ cmd' = Finish(cmd, "none")
                   /\ UNCHANGED <<config, ev>>
            ELSE EditProjectMutate(config,
                                   getOrCreateCategoryNode(config, pathSegments),
                                   TRUE, pathSegments)
  /\ UNCHANGED <<call, file, validationIssues, hadValidationErrors, lastLoad,
                 watcherVars,
                 viewStale, counters>>

(***************************************************************************)
(* renameCategory                                                          *)
(***************************************************************************)
RenameCategoryStart ==
  /\ CanStart
  /\ \E item \in AllItems(config) \cup {NoItem} :
       LET c == [Idle EXCEPT !.op = "renameCategory", !.item = item]
       IN  cmd' = IF item.nodeType # "category"
                    THEN Finish(c, "warning.selectCategory")
                  ELSE [c EXCEPT !.pc = "name",
                                 !.catPath = resolveCategoryPath(item)]
  /\ LoadInto(file, loadConfig(file, hadValidationErrors))
  /\ viewStale' = TRUE
  /\ ev' = NoEvent
  /\ nCommands' = nCommands + 1
  /\ UNCHANGED <<call, file, watcherVars, nEdits>>

\* The name prompt is answered; pickParentCategoryPath then builds its picks
\* from the tree that is loaded now.
RenameCategoryName ==
  /\ cmd.op = "renameCategory" /\ cmd.pc = "name"
  /\ \/ cmd' = Finish(cmd, "none")
     \/ \E input \in RenameInputs :
          LET newName == Trim(input)
          IN  cmd' = IF newName = <<>> THEN Finish(cmd, "none")
                     ELSE IF Includes(newName, SEP)
                       THEN Finish(cmd, "error.invalidCharacters")
                     ELSE [cmd EXCEPT !.pc = "pickParent", !.name = newName,
                                      !.tgtHeld = TRUE, !.tgtFresh = TRUE]
  /\ UNCHANGED <<call, file, loadVars, watcherVars, viewStale, ev, counters>>

\* tree after  destination[newName] = node  at targetParent; found is FALSE
\* where the destination does not exist.
AttachCategory(tree, targetParent, newName, node) ==
  LET destination == getCategoryNodeByPath(tree, targetParent)
  IN  IF destination = Undefined THEN [found |-> FALSE, tree |-> tree]
      ELSE [found |-> TRUE,
            tree |-> ReplaceNodeAt(tree, targetParent,
                                   SetProp(destination, newName, node))]

\* tree after  delete container[key]  for the category at categoryPath
DetachCategory(tree, categoryPath) ==
  ReplaceNodeAt(tree, ParentOf(categoryPath),
                DeleteProp(getCategoryNodeByPath(tree, ParentOf(categoryPath)),
                           LastOf(categoryPath)))

\* Lines 1249-1263 of renameCategory: the category is deleted from its
\* container and then assigned to the destination found in what is left.
MoveCategory(cfg, categoryPath, newName, targetParent) ==
  AttachCategory(DetachCategory(cfg, categoryPath), targetParent, newName,
                 getCategoryNodeByPath(cfg, categoryPath))

\* The outcome of a move that reached line 1249.
Moved(attached) ==
  IF ~attached.found
    THEN [outcome |-> "detached", msg |-> "error.categoryMissing",
          tree |-> attached.tree]
  ELSE [outcome |-> "mutated", msg |-> "info", tree |-> attached.tree]

\* renameCategory without the check of lines 1227-1239: a move onto an
\* existing category goes through.
RenameOutcomeUnchecked(cfg, categoryPath, newName, targetParent) ==
  IF ~getCategoryContainer(cfg, categoryPath).found
    THEN [outcome |-> "missing", msg |-> "error.categoryMissing", tree |-> cfg]
  ELSE IF /\ pathsEqual(Append(targetParent, newName), categoryPath)
          /\ newName = LastOf(categoryPath)
          /\ pathsEqual(targetParent, ParentOf(categoryPath))
    THEN [outcome |-> "unchanged", msg |-> "none", tree |-> cfg]
  ELSE Moved(MoveCategory(cfg, categoryPath, newName, targetParent))

\* Lines 1219-1263 of renameCategory on tree cfg: the notification, whether
\* persistChanges is reached, and the tree left in this.config.
RenameOutcome(cfg, categoryPath, newName, targetParent) ==
  IF ~getCategoryContainer(cfg, categoryPath).found
    THEN [outcome |-> "missing", msg |-> "error.categoryMissing", tree |-> cfg]
  ELSE IF /\ ~pathsEqual(Append(targetParent, newName), categoryPath)
          /\ getCategoryNodeByPath(cfg, Append(targetParent, newName)) # Undefined
    THEN [outcome |-> "duplicate", msg |-> "error.duplicate", tree |-> cfg]
  ELSE IF /\ pathsEqual(Append(targetParent, newName), categoryPath)
          /\ newName = LastOf(categoryPath)
          /\ pathsEqual(targetParent, ParentOf(categoryPath))
    THEN [outcome |-> "unchanged", msg |-> "none", tree |-> cfg]
  ELSE Moved(MoveCategory(cfg, categoryPath, newName, targetParent))

\* renameCategory goes on with the parent path targetParent.
RenameCategoryDecide(targetParent) ==
  \E r \in {RenameOutcome(config, cmd.catPath, cmd.name, targetParent)} :
    /\ config' = r.tree
    /\ cmd' = IF r.outcome = "mutated" THEN BeginPersist(cmd, r.tree, "info")
              ELSE Finish(cmd, r.msg)
    /\ ev' = [Event("renameCategory", r.outcome, r.tree)
                EXCEPT !.refPath = cmd.catPath, !.tgtPath = targetParent,
                       !.name = cmd.name]

\* The quick pick of pickParentCategoryPath is answered with one of the
\* paths offered, or dismissed.
RenameCategoryPick ==
  /\ cmd.op = "renameCategory" /\ cmd.pc = "pickParent"
  /\ \/ /\ cmd' = Finish(cmd, "none")
        /\ UNCHANGED <<config, ev>>
     \/ \E targetParent \in ParentPicks(PickerTree, cmd.catPath, ParentOf(cmd.catPath)) :
          RenameCategoryDecide(targetParent)
  /\ UNCHANGED <<call, file, validationIssues, hadValidationErrors, lastLoad,
                 watcherVars,
                 viewStale, counters>>

\* showQuickPick resolves with an item that was not among the picks: the
\* window stub of the test suite returns whatever was queued, here a path
\* at or below the category itself.
RenameCategoryPickQueued ==
  /\ cmd.op = "renameCategory" /\ cmd.pc = "pickParent"
  /\ \E targetParent \in Range(collectCategoryNodes(PickerTree)) :
       /\ isSameOrDescendantPath(targetParent, cmd.catPath)
       /\ RenameCategoryDecide(targetParent)
  /\ UNCHANGED <<call, file, validationIssues, hadValidationErrors, lastLoad,
                 watcherVars,
                 viewStale, counters>>

(***************************************************************************)
(* removeCategory                                                          *)
(***************************************************************************)
\* removeCategory up to its question, after the check of the item's node
\* type, on the tree cfg just loaded: a category without content is deleted
\* at once.
RemoveCategoryBegin(c, cfg, categoryPath) ==
  IF ~getCategoryContainer(cfg, categoryPath).found
    THEN [cmd |-> Finish(c, "error.categoryMissing"), tree |-> cfg,
          mutated |-> FALSE]
  ELSE IF ~categoryHasContent(getCategoryNodeByPath(cfg, categoryPath))
    THEN [cmd |-> BeginPersist(c, DetachCategory(cfg, categoryPath), "info"),
          tree |-> DetachCategory(cfg, categoryPath), mutated |-> TRUE]
  ELSE [cmd |-> [c EXCEPT !.pc = "choose", !.refHeld = TRUE, !.refFresh = TRUE,
                          !.refPath = categoryPath],
        tree |-> cfg, mutated |-> FALSE]

RemoveCategoryStart ==
  /\ CanStart
  /\ \E item \in AllItems(config) \cup {NoItem} :
       \E r \in {loadConfig(file, hadValidationErrors)},
          c \in {[Idle EXCEPT !.op = "removeCategory", !.item = item]} :
         /\ LoadIssues(file, r)
         /\ IF item.nodeType # "category"
              THEN /\ cmd' = Finish(c, "warning.selectCategory")
                   /\ config' = r.config
                   /\ ev' = NoEvent
            ELSE \E b \in {RemoveCategoryBegin(c, r.config,
                                               resolveCategoryPath(item))} :
                   /\ cmd' = b.cmd
                   /\ config' = b.tree
                   /\ ev' = IF b.mutated
                              THEN [Event("removeCategory", "mutated", b.tree)
                                      EXCEPT !.cfgPre = r.config,
                                             !.refFresh = TRUE,
                                             !.refPath = resolveCategoryPath(item),
                                             !.refPre = r.config,
                                             !.refPost = b.tree,
                                             !.name = <<"empty">>]
                            ELSE NoEvent
  /\ viewStale' = TRUE
  /\ nCommands' = nCommands + 1
  /\ UNCHANGED <<call, file, watcherVars, nEdits>>

\* The modal question is answered: dismissed, "Delete everything" or "Move
\* contents to top level".  The container and the category node are those
\* found before the question.
RemoveCategoryChoose ==
  /\ cmd.op = "removeCategory" /\ cmd.pc = "choose"
  /\ \/ /\ cmd' = Finish(cmd, "none")
        /\ UNCHANGED <<config, ev>>
     \/ \E choice \in {"delete", "move"} :
          \E removed \in {DetachCategory(ReferenceTree, cmd.refPath)} :
            /\ config' =
                 IF choice = "move"
                   THEN mergeCategoryIntoRoot(
                          IF cmd.refFresh THEN removed ELSE config,
                          getCategoryNodeByPath(ReferenceTree, cmd.refPath))
                 ELSE IF cmd.refFresh THEN removed ELSE config
            /\ cmd' = BeginPersist(cmd, config', "info")
            /\ ev' = [Event("removeCategory", "mutated", config')
                        EXCEPT !.refFresh = cmd.refFresh,
                               !.refPath = cmd.refPath,
                               !.refPre = ReferenceTree, !.refPost = removed,
                               !.name = <<choice>>]
  /\ UNCHANGED <<call, file, validationIssues, hadValidationErrors, lastLoad,
                 watcherVars,
                 viewStale, counters>>

(***************************************************************************)
(* removeProject                                                           *)
(***************************************************************************)
RemoveProjectStart ==
  /\ CanStart
  /\ LoadInto(file, loadConfig(file, hadValidationErrors))
  /\ \E item \in AllItems(config) \cup {NoItem} :
       cmd' = ResolveItem([Idle EXCEPT !.op = "removeProject", !.item = item],
                          config', resolveProjectReference(config', item),
                          "confirm")
  /\ viewStale' = TRUE
  /\ ev' = NoEvent
  /\ nCommands' = nCommands + 1
  /\ UNCHANGED <<call, file, watcherVars, nEdits>>

\* tree after lines 1400-1403: the splice, and the delete of an emptied list
RemoveProjectAt(tree, pathSegments, index) ==
  LET node == getCategoryNodeByPath(tree, pathSegments)
      rest == Splice1(GetProp(node, PROJECTS).items, index)
  IN  ReplaceNodeAt(tree, pathSegments,
                    IF Len(rest) = 0 THEN DeleteProp(node, PROJECTS)
                    ELSE SetProp(node, PROJECTS, Arr(rest)))

\* The modal confirmation is answered: "Remove", or anything else.
RemoveProjectConfirm ==
  /\ cmd.op = "removeProject" /\ cmd.pc = "confirm"
  /\ \/ /\ cmd' = Finish(cmd, "none")
        /\ UNCHANGED <<config, ev>>
     \/ \E post \in {RemoveProjectAt(ReferenceTree, cmd.refPath, cmd.refIndex)} :
          /\ config' = IF cmd.refFresh THEN post ELSE config
          /\ cmd' = BeginPersist(cmd, config', "info")
          /\ ev' = [Event("removeProject", "mutated", config')
                      EXCEPT !.refFresh = cmd.refFresh,
                             !.refPath = cmd.refPath,
                             !.refIndex = cmd.refIndex,
                             !.refPre = ReferenceTree, !.refPost = post]
  /\ UNCHANGED <<call, file, validationIssues, hadValidationErrors, lastLoad,
                 watcherVars,
                 viewStale, counters>>

(***************************************************************************)
(* The program                                                             *)
(***************************************************************************)
Next ==
  \/ ExternalEdit
  \/ WatchEvent
  \/ DebounceFire
  \/ RetryFire
  \/ WriteOpen
  \/ WriteDone
  \/ WriteFail
  \/ Refresh
  \/ Settle
  \/ AddCategoryStart
  \/ AddCategoryName
  \/ AddProjectStart
  \/ AddProjectFolder
  \/ AddProjectLabel
  \/ AddProjectPick
  \/ AddProjectNewCategory
  \/ EditProjectStart
  \/ EditProjectLabel
  \/ EditProjectPath
  \/ EditProjectIcon
  \/ EditProjectPick
  \/ EditProjectNewCategory
  \/ RenameCategoryStart
  \/ RenameCategoryName
  \/ RenameCategoryPick
  \/ RenameCategoryPickQueued
  \/ RemoveCategoryStart
  \/ RemoveCategoryChoose
  \/ RemoveProjectStart
  \/ RemoveProjectConfirm

Spec == Init /\ [][Next]_vars

(***************************************************************************)
(* Loading.  The same engine started on, and then faced with, documents    *)
(* that validation has something to say about: the loads of construction,  *)
(* of the watcher's debounce timer and of refresh.                         *)
(***************************************************************************)
\* Rewrites of projects.json by another process in one behaviour.
MaxLoadEdits == 2

\* {"label":" ", "path":5, "icon":5}
BlankProject ==
  Obj(<<Ent(LABEL, Str(<<SP>>)), Ent(PATH, Num), Ent(ICON, Num)>>)

\* {"path":"/x"}
UnlabelledProject == Obj(<<Ent(PATH, Str(<<SEP, "x">>))>>)

\* {"projects":[5,r1,r2], "Work":{"projects":[a1,{"label":" ",...}],
\*  "Sub":{"projects":[{"path":"/x"}]}, "Tags":["x"]}, "Bad":5}
DocInvalidEntries ==
  Obj(<<Ent(PROJECTS, Arr(<<Num, JsonProject("r1"), JsonProject("r2")>>)),
        Ent(<<"Work">>,
            Obj(<<Ent(PROJECTS, Arr(<<JsonProject("a1"), BlankProject>>)),
                  Ent(<<"Sub">>, Obj(<<Ent(PROJECTS, Arr(<<UnlabelledProject>>))>>)),
                  Ent(<<"Tags">>, Arr(<<Str(<<"x">>)>>))>>)),
        Ent(<<"Bad">>, Num)>>)

\* {"projects":5, "Work":{"projects":{"label":"a1",...}}}
DocNotLists ==
  Obj(<<Ent(PROJECTS, Num),
        Ent(<<"Work">>, Obj(<<Ent(PROJECTS, JsonProject("a1"))>>))>>)

\* {"projects":[r1], "Client.App":{"projects":[{"path":"/x"}]},
\*  "Client":{"App":{"projects":[c1]}}, "__root__":{"projects":[c2]}}
DocDotted ==
  Obj(<<Ent(PROJECTS, ProjectList(<<"r1">>)),
        Ent(<<"Client", ".", "App">>,
            Obj(<<Ent(PROJECTS, Arr(<<UnlabelledProject>>))>>)),
        Ent(<<"Client">>,
            Obj(<<Ent(<<"App">>, Obj(<<Ent(PROJECTS, ProjectList(<<"c1">>))>>))>>)),
        Ent(ROOT_KEY, Obj(<<Ent(PROJECTS, ProjectList(<<"c2">>))>>))>>)

\* What projects.json holds at activation and what another process makes
\* of it.
LoadFiles ==
  {MissingFile, BlankFile, InvalidFile, JsonFile(Num), JsonFile(Arr(<<>>)),
   JsonFile(DocNested), JsonFile(DocScalar), JsonFile(DocInvalidEntries),
   JsonFile(DocNotLists), JsonFile(DocDotted)}

InitLoad ==
  /\ file \in LoadFiles
  /\ \E r \in {loadConfig(file, FALSE)} :
       /\ config = r.config
       /\ validationIssues = r.issues
       /\ hadValidationErrors = r.had
       /\ lastLoad = [first |-> TRUE, read |-> file, before |-> EmptyObject,
                     prevClean |-> TRUE,
                       warned |-> r.warned, tree |-> r.config]
  /\ watcher = IF file.kind # "missing" THEN "file" ELSE "dir"
  /\ watcherDebounce = FALSE
  /\ watcherRetryTimeout = FALSE
  /\ timers = NoTimers
  /\ fsEvent = FALSE
  /\ viewStale = FALSE
  /\ cmd = Idle
  /\ ev = NoEvent
  /\ nCommands = 0
  /\ nEdits = 0
  /\ call = NoCall

\* Another process replaces, creates or deletes projects.json.
ExternalRewrite ==
  /\ nEdits < MaxLoadEdits
  /\ \E f \in LoadFiles : file' = f
  /\ nEdits' = nEdits + 1
  /\ QueueFsEvent
  /\ UNCHANGED <<call, loadVars, watcher, watcherDebounce,
                 watcherRetryTimeout, timers, viewStale, cmd, ev, nCommands>>

NextLoad ==
  \/ ExternalRewrite
  \/ WatchEvent
  \/ DebounceFire
  \/ RetryFire
  \/ Refresh

SpecLoad == InitLoad /\ [][NextLoad]_vars

\* The host delivers a queued change event and runs a timeout that is due.
\* DebounceFire is enabled exactly while a reload timeout is pending and
\* leaves none pending, so its weak fairness is that again and again no
\* reload timeout is pending.
SpecLoadFair ==
  /\ SpecLoad
  /\ WF_vars(WatchEvent)
  /\ WF_vars(RetryFire)
  /\ []<>(timers.debounce = 0)

(***************************************************************************)
(* The watcher next to one command: projects.json is deleted and rewritten *)
(* by another process while addCategory, which ends in persistChanges and  *)
(* its setupWatcher(), runs.                                               *)
(***************************************************************************)
\* Changes of projects.json by another process in one behaviour.
MaxWatchEdits == 2

\* Another process replaces or deletes projects.json.
ExternalChange ==
  /\ nEdits < MaxWatchEdits
  /\ \E f \in ExternalFiles : file' = f
  /\ nEdits' = nEdits + 1
  /\ QueueFsEvent
  /\ UNCHANGED <<call, loadVars, watcher, watcherDebounce,
                 watcherRetryTimeout, timers, viewStale, cmd, ev, nCommands>>

NextWatch ==
  \/ ExternalChange
  \/ WatchEvent
  \/ DebounceFire
  \/ RetryFire
  \/ AddCategoryStart
  \/ AddCategoryName
  \/ WriteOpen
  \/ WriteDone
  \/ WriteFail
  \/ Settle

SpecWatch == Init /\ [][NextWatch]_vars

(***************************************************************************)
(* Path conversion: formatPathForConfig and resolveProjectPathValue        *)
(* applied to absolute paths of the host.                                  *)
(***************************************************************************)
\* Segments of an absolute path.
MaxSegments == 2

\* Directory names, one of them with a backslash, which is an ordinary
\* character of a name on a POSIX host; ".", ".." and the empty segment of
\* a doubled separator.
PathSegments ==
  {<<"home">>, <<"HOME">>, <<"w">>, <<"d", BACKSLASH, "e">>, <<".">>, DOTDOT,
   <<>>}

RECURSIVE PathsOfLength(_)
PathsOfLength(n) ==
  IF n = 0 THEN {<<>>}
  ELSE {p \o <<SEP>> \o s : p \in PathsOfLength(n - 1), s \in PathSegments}

\* Absolute paths of up to MaxSegments segments, with and without a
\* trailing separator.
AbsolutePaths ==
  LET bare == UNION {PathsOfLength(n) : n \in 1..MaxSegments} \cup {<<SEP>>}
  IN  bare \cup {p \o <<SEP>> : p \in bare}

InitPath ==
  /\ file = JsonFile(DocNested)
  /\ \E r \in {loadConfig(file, FALSE)} :
       /\ config = r.config
       /\ validationIssues = r.issues
       /\ hadValidationErrors = r.had
       /\ lastLoad = [first |-> TRUE, read |-> file, before |-> EmptyObject,
                      prevClean |-> TRUE,
                      warned |-> r.warned, tree |-> r.config]
  /\ watcher = "file"
  /\ watcherDebounce = FALSE
  /\ watcherRetryTimeout = FALSE
  /\ timers = NoTimers
  /\ fsEvent = FALSE
  /\ viewStale = FALSE
  /\ cmd = Idle
  /\ ev = NoEvent
  /\ nCommands = 0
  /\ nEdits = 0
  /\ \E p \in AbsolutePaths : call = [NoCall EXCEPT !.arg = p]

storeVars ==
  <<file, config, validationIssues, hadValidationErrors, lastLoad, watcher,
    watcherDebounce, watcherRetryTimeout, timers, fsEvent, viewStale, cmd,
    ev, nCommands, nEdits>>

\* formatPathForConfig(arg): the form of the path kept in projects.json.
FormatPath ==
  /\ call.op = "none"
  /\ call' = [call EXCEPT !.op = "format",
                          !.portable = formatPathForConfig(call.arg)]
  /\ UNCHANGED storeVars

\* resolveProjectPathValue of the form kept in projects.json.
ResolvePath ==
  /\ call.op = "format"
  /\ call' = [call EXCEPT !.op = "resolve",
                          !.absolute = resolveProjectPathValue(call.portable)]
  /\ UNCHANGED storeVars

NextPath == FormatPath \/ ResolvePath

SpecPath == InitPath /\ [][NextPath]_vars

\* Values of a project's `path` in projects.json: the absolute paths without
\* their leading separator, which are relative paths, absolute paths after
\* a doubled separator and the empty string, each also after a space; and
\* values that start with "~".
StoredPaths ==
  {pad \o Tail(p) : pad \in {<<>>, <<SP>>}, p \in AbsolutePaths}
  \cup {<<"~">>, <<"~", SEP, "w">>, <<"~", "w">>}

InitStored ==
  /\ InitPath!1
  /\ InitPath!2
  /\ InitPath!3
  /\ InitPath!4
  /\ InitPath!5
  /\ InitPath!6
  /\ InitPath!7
  /\ InitPath!8
  /\ InitPath!9
  /\ InitPath!10
  /\ InitPath!11
  /\ InitPath!12
  /\ \E p \in StoredPaths : call = [NoCall EXCEPT !.arg = p]

\* resolveProjectPathValue(project.path) for a stored value.
ResolveStored ==
  /\ call.op = "none"
  /\ call' = [call EXCEPT !.op = "stored",
                          !.absolute = resolveProjectPathValue(call.arg)]
  /\ UNCHANGED storeVars

NextStored == ResolveStored

SpecStored == InitStored /\ [][NextStored]_vars

(***************************************************************************)
(* Round trip: the loaded tree is saved with no mutation made and loaded   *)
(* again.                                                                  *)
(***************************************************************************)
\* {"icon":" star ", "label":" p ", "path":"~/w", "tags":5}
IconProject ==
  Obj(<<Ent(ICON, Str(<<SP, "star", SP>>)), Ent(LABEL, Str(<<SP, "p", SP>>)),
        Ent(PATH, Str(<<"~", SEP, "w">>)), Ent(<<"tags">>, Num)>>)

\* The root `projects` property: absent, not a list, empty, with an entry
\* that is not an object, with entries that lack properties.
RootLists ==
  {<<>>,
   <<Ent(PROJECTS, Num)>>,
   <<Ent(PROJECTS, Arr(<<>>))>>,
   <<Ent(PROJECTS, Arr(<<Num, JsonProject("r1")>>))>>,
   <<Ent(PROJECTS, Arr(<<BlankProject, UnlabelledProject, IconProject>>))>>}

\* The root property Work: absent, not an object, empty, with a category
\* written before its list, with a list that is not one.
WorkValues ==
  {<<>>,
   <<Ent(<<"Work">>, Num)>>,
   <<Ent(<<"Work">>, EmptyObject)>>,
   <<Ent(<<"Work">>,
         Obj(<<Ent(<<"Sub">>, Obj(<<Ent(PROJECTS, ProjectList(<<"b1">>))>>)),
               Ent(PROJECTS, Arr(<<JsonProject("a1"), Num>>))>>))>>,
   <<Ent(<<"Work">>,
         Obj(<<Ent(PROJECTS, Num),
               Ent(<<"Tags">>, Arr(<<Str(<<"x">>)>>))>>))>>}

\* One more root category: none, one named __root__, one with a dot.
OtherValues ==
  {<<>>,
   <<Ent(ROOT_KEY, Obj(<<Ent(PROJECTS, ProjectList(<<"c2">>))>>))>>,
   <<Ent(<<"Client", ".", "App">>,
         Obj(<<Ent(PROJECTS, Arr(<<IconProject>>))>>))>>}

\* What projects.json holds before the round trip: the documents of the
\* load behaviours, and the documents made of the parts above, the root
\* list written first or last.
RoundFiles ==
  LoadFiles
  \cup {JsonFile(Obj(r \o w \o o)) :
          r \in RootLists, w \in WorkValues, o \in OtherValues}
  \cup {JsonFile(Obj(w \o o \o r)) :
          r \in RootLists, w \in WorkValues, o \in OtherValues}

InitRound ==
  /\ file \in RoundFiles
  /\ InitLoad!2
  /\ InitLoad!3
  /\ InitLoad!4
  /\ InitLoad!5
  /\ InitLoad!6
  /\ InitLoad!7
  /\ InitLoad!8
  /\ InitLoad!9
  /\ InitLoad!10
  /\ InitLoad!11
  /\ InitLoad!12
  /\ InitLoad!13

\* saveConfigToDisk() of the loaded tree, no mutation made.
SaveBack ==
  /\ call.op = "none"
  /\ file' = saveConfigToDisk(config)
  /\ call' = [call EXCEPT !.op = "save"]
  /\ UNCHANGED <<loadVars, watcherVars, viewStale, cmd, ev, counters>>

\* loadConfig() of the file just saved.
LoadBack ==
  /\ call.op = "save"
  /\ LoadInto(file, loadConfig(file, hadValidationErrors))
  /\ call' = [call EXCEPT !.op = "load"]
  /\ UNCHANGED <<file, watcherVars, viewStale, cmd, ev, counters>>

NextRound == SaveBack \/ LoadBack

SpecRound == InitRound /\ [][NextRound]_vars

(***************************************************************************)
(* Merge: mergeCategoryNodes applied to two category nodes of a loaded     *)
(* tree.                                                                   *)
(***************************************************************************)
\* The `projects` property of a node whose projects are named after side:
\* absent, empty, one project, two projects.
MergeLists(side) ==
  {<<>>,
   <<Ent(PROJECTS, Arr(<<>>))>>,
   <<Ent(PROJECTS, ProjectList(<<side \o "1">>))>>,
   <<Ent(PROJECTS, ProjectList(<<side \o "1", side \o "2">>))>>}

\* The property Lib of a node: absent, a value that is no object (which a
\* load keeps below a category), an empty category, a category with a
\* project, a category with a project and a nested category.
MergeChildren(side) ==
  {<<>>,
   <<Ent(<<"Lib">>, Num)>>,
   <<Ent(<<"Lib">>, EmptyObject)>>,
   <<Ent(<<"Lib">>, Obj(<<Ent(PROJECTS, ProjectList(<<side \o "3">>))>>))>>,
   <<Ent(<<"Lib">>,
         Obj(<<Ent(PROJECTS, ProjectList(<<side \o "3">>)),
               Ent(<<"Sub">>,
                   Obj(<<Ent(PROJECTS, ProjectList(<<side \o "4">>))>>))>>))>>}

\* Category nodes of one side of a merge.
MergeNodes(side) ==
  {Obj(l \o c) : l \in MergeLists(side), c \in MergeChildren(side)}

\* The record of merges when none has been applied.
NoMerge(target, source) ==
  [op |-> "none", target |-> target, source |-> source, merged |-> Undefined]

InitMerge ==
  /\ InitPath!1
  /\ InitPath!2
  /\ InitPath!3
  /\ InitPath!4
  /\ InitPath!5
  /\ InitPath!6
  /\ InitPath!7
  /\ InitPath!8
  /\ InitPath!9
  /\ InitPath!10
  /\ InitPath!11
  /\ InitPath!12
  /\ \E target \in MergeNodes("t"), source \in MergeNodes("s") :
       call = NoMerge(target, source)

\* mergeCategoryNodes(target, source)
Merge ==
  /\ call.op = "none"
  /\ call' = [call EXCEPT !.op = "merge",
                          !.merged = mergeCategoryNodes(call.target, call.source)]
  /\ UNCHANGED storeVars

NextMerge == Merge

SpecMerge == InitMerge /\ [][NextMerge]_vars

(***************************************************************************)
(* Commands on items of a view that is out of date: projects.json is       *)
(* rewritten by another process, and a command that resolves the item it   *)
(* is started with is run before the view has followed.                    *)
(***************************************************************************)
NextStale ==
  \/ ExternalRewrite
  \/ EditProjectStart
  \/ RemoveProjectStart
  \/ RemoveCategoryStart
  \/ RenameCategoryStart
  \/ RenameCategoryName
  \/ RenameCategoryPick

SpecStale == InitLoad /\ [][NextStale]_vars

(***************************************************************************)
(* The cache of resolved paths.  getChildren resolves the path of every    *)
(* project it lists through getProjectResolvedPath, loadConfig replaces    *)
(* the cache, and editProject puts a new project object in the list.  A    *)
(* project object is its index in objects, the objects allocated so far;   *)
(* the elements of the view keep the nodes of the generations they were    *)
(* made from.                                                              *)
(***************************************************************************)
\* Loads after construction in one behaviour.
MaxGenerations == 2

\* What projects.json holds at activation.
CacheFiles == {JsonFile(DocScalar)}

\* Values editProject is given for the path of the project.
CachePathInputs == {<<"~", SEP, "w">>, <<"x">>}

\* The root and the categories of tree, the root first.
ListOwners(tree) == <<<<>>>> \o collectCategoryNodes(tree)

\* The objects of the project list of the category at pathSegments of tree,
\* made by normalizeProject in the load that began generation.
ProjectObjects(tree, generation, pathSegments) ==
  LET list == ProjectsAt(tree, pathSegments)
  IN  IF IsArray(list)
        THEN [i \in 1..Len(list.items) |->
                [generation |-> generation, owner |-> pathSegments,
                 index |-> i - 1, path |-> GetProp(list.items[i], PATH).s,
                 listed |-> TRUE]]
      ELSE <<>>

\* The project objects of a tree just loaded.
AllocateTree(tree, generation) ==
  Flatten([i \in 1..Len(ListOwners(tree)) |->
             ProjectObjects(tree, generation, ListOwners(tree)[i])])

\* this.resolvedPathCache is left as it is.
KeptWeakMap(cache) == cache

\* this.resolvedPathCache = new WeakMap()
NewWeakMap(cache) == {}

\* The entry of project in the cache, if any.
Cached(cache, project) == {e \in cache : e.project = project}

\* getProjectResolvedPath(project) in generation: the entry returned, and
\* whether it was found in the cache (hit) or is written by the call.
getProjectResolvedPath(cache, objects, project, generation) ==
  IF Cached(cache, project) # {}
    THEN [entry |-> CHOOSE e \in Cached(cache, project) : TRUE,
          hit |-> TRUE, generation |-> generation]
  ELSE [entry |-> [project |-> project,
                   resolved |-> resolveProjectPathValue(objects[project].path),
                   written |-> generation],
        hit |-> FALSE, generation |-> generation]

NoCache ==
  [op |-> "none", generation |-> 0, objects |-> <<>>,
   resolvedPathCache |-> {}, read |-> {}, saving |-> FALSE,
   content |-> MissingFile]

InitCache ==
  /\ file \in CacheFiles
  /\ InitLoad!2
  /\ InitLoad!3
  /\ InitLoad!4
  /\ InitLoad!5
  /\ InitLoad!6
  /\ InitLoad!7
  /\ InitLoad!8
  /\ InitLoad!9
  /\ InitLoad!10
  /\ InitLoad!11
  /\ InitLoad!12
  /\ call = [NoCache EXCEPT !.objects = AllocateTree(config, 0)]

\* The objects of the list of the category at owner made in generation
\* that are still in the list.
ListedObjects(objects, generation, owner) ==
  {o \in DOMAIN objects : /\ objects[o].generation = generation
                          /\ objects[o].owner = owner
                          /\ objects[o].listed}

\* getChildren(element): the projects of the root of this.config, or of the
\* node an element of the view holds, are made into items.
ListProjects ==
  \E generation \in 0..call.generation, owner \in Range(ListOwners(config))
       \cup {call.objects[o].owner : o \in DOMAIN call.objects} :
    LET listed == ListedObjects(call.objects, generation, owner)
        reads == {getProjectResolvedPath(call.resolvedPathCache, call.objects,
                                         o, call.generation) : o \in listed}
    IN  /\ listed # {}
        /\ owner = <<>> => generation = call.generation
        /\ call' = [call EXCEPT !.op = "list",
                      !.resolvedPathCache = @ \cup {r.entry : r \in reads},
                      !.read = reads]
        /\ UNCHANGED storeVars

\* loadConfig() of the refresh command and of the watcher.
ReloadTree ==
  /\ call.generation < MaxGenerations
  /\ \E r \in {loadConfig(file, hadValidationErrors)} :
       /\ LoadInto(file, r)
       /\ call' = [call EXCEPT !.op = "load", !.generation = @ + 1,
                     !.objects = @ \o AllocateTree(r.config, call.generation + 1),
                     !.resolvedPathCache = NewWeakMap(@)]
  /\ viewStale' = FALSE
  /\ UNCHANGED <<file, watcherVars, cmd, ev, counters>>

\* editProject, the category kept: lines 1124-1134 and persistChanges up to
\* the await of writeFile.  The entry becomes a new object.
EditReplace ==
  /\ ~call.saving
  /\ \E o \in DOMAIN call.objects, p \in CachePathInputs :
       LET old == call.objects[o]
           updatedProject == UpdatedProject([label |-> <<"e1">>, path |-> p,
                                             icon |-> <<>>])
       IN  /\ old.generation = call.generation
           /\ old.listed
           /\ config' = ReplaceProject(config, old.owner, old.index,
                                       updatedProject)
           /\ call' = [call EXCEPT !.op = "replace", !.saving = TRUE,
                         !.objects = Append([@ EXCEPT ![o].listed = FALSE],
                                       [old EXCEPT !.path =
                                          GetProp(updatedProject, PATH).s]),
                         !.content = saveConfigToDisk(config')]
  /\ UNCHANGED <<file, validationIssues, hadValidationErrors, lastLoad,
                 watcherVars, viewStale, cmd, ev, counters>>

\* persistChanges after the write: loadConfig().
SaveReload ==
  /\ call.saving
  /\ call.generation < MaxGenerations
  /\ file' = call.content
  /\ \E r \in {loadConfig(file', hadValidationErrors)} :
       /\ LoadInto(file', r)
       /\ call' = [call EXCEPT !.op = "load", !.generation = @ + 1,
                     !.saving = FALSE,
                     !.objects = @ \o AllocateTree(r.config, call.generation + 1),
                     !.resolvedPathCache = NewWeakMap(@)]
  /\ viewStale' = FALSE
  /\ UNCHANGED <<watcherVars, cmd, ev, counters>>

NextCache == ListProjects \/ ReloadTree \/ EditReplace \/ SaveReload

SpecCache == InitCache /\ [][NextCache]_vars

(***************************************************************************)
(* Path input: normalizePathInput applied to what the user enters for the  *)
(* path of a project, and resolveProjectPathValue applied to the result.   *)
(***************************************************************************)
\* What the user enters: relative paths, paths that start with "~", and
\* absolute paths.
InputPaths == StoredPaths \cup AbsolutePaths

InitInput ==
  /\ InitPath!1
  /\ InitPath!2
  /\ InitPath!3
  /\ InitPath!4
  /\ InitPath!5
  /\ InitPath!6
  /\ InitPath!7
  /\ InitPath!8
  /\ InitPath!9
  /\ InitPath!10
  /\ InitPath!11
  /\ InitPath!12
  /\ \E p \in InputPaths : call = [NoCall EXCEPT !.arg = p]

\* normalizePathInput(arg): the form editProject stores.
NormalizeInput ==
  /\ call.op = "none"
  /\ call' = [call EXCEPT !.op = "input",
                          !.portable = normalizePathInput(call.arg)]
  /\ UNCHANGED storeVars

\* resolveProjectPathValue of the form editProject stores.
ResolveInput ==
  /\ call.op = "input"
  /\ call' = [call EXCEPT !.op = "resolve",
                          !.absolute = resolveProjectPathValue(call.portable)]
  /\ UNCHANGED storeVars

NextInput == NormalizeInput \/ ResolveInput

SpecInput == InitInput /\ [][NextInput]_vars

(***************************************************************************)
(* The watcher with errors and disposal: the open watcher emits "error",   *)
(* and the extension is deactivated, which disposes the provider.          *)
(***************************************************************************)
\* The "error" listener of the open watcher: scheduleWatcherRestart().  The
\* closed watcher delivers no event that was queued for it.
WatchError ==
  /\ watcher # "none"
  /\ watcher' = "none"
  /\ watcherDebounce' = FALSE
  /\ watcherRetryTimeout' = TRUE
  /\ timers' = [disposeWatcher(timers) EXCEPT !.restart = @ + 1]
  /\ fsEvent' = FALSE
  /\ UNCHANGED <<call, file, loadVars, viewStale, cmd, ev, counters>>

\* The provider has been disposed.
Disposed == call.op = "dispose"

\* dispose(): disposeWatcher().
Dispose ==
  /\ ~Disposed
  /\ call' = [call EXCEPT !.op = "dispose"]
  /\ watcher' = "none"
  /\ watcherDebounce' = FALSE
  /\ watcherRetryTimeout' = FALSE
  /\ timers' = disposeWatcher(timers)
  /\ fsEvent' = FALSE
  /\ UNCHANGED <<file, loadVars, viewStale, cmd, ev, counters>>

NextFault ==
  \/ ExternalRewrite
  \/ WatchEvent
  \/ WatchError
  \/ DebounceFire
  \/ RetryFire
  \/ Dispose

SpecFault == InitLoad /\ [][NextFault]_vars

\* The host delivers a queued change event and runs a timeout that is due,
\* as in SpecLoadFair; an error of the watcher may or may not happen.
SpecFaultFair ==
  /\ SpecFault
  /\ WF_vars(WatchEvent)
  /\ WF_vars(RetryFire)
  /\ []<>(timers.debounce = 0)

\* The watcher, its errors and disposal next to one command: addCategory
\* is started before the provider is disposed, and a write of projects.json
\* that is under way completes afterwards.
NextLife ==
  \/ ExternalChange
  \/ WatchEvent
  \/ WatchError
  \/ DebounceFire
  \/ RetryFire
  \/ Dispose
  \/ ~Disposed /\ AddCategoryStart
  \/ ~Disposed /\ AddCategoryName
  \/ WriteOpen
  \/ WriteDone
  \/ WriteFail
  \/ Settle

SpecLife == Init /\ [][NextLife]_vars

(***************************************************************************)
(* A command on a file that holds invalid entries: addCategory, which adds *)
(* an empty category and targets no entry that exists, with its save and   *)
(* reload.                                                                 *)
(***************************************************************************)
NextHeal ==
  \/ AddCategoryStart
  \/ AddCategoryName
  \/ WriteOpen
  \/ WriteDone
  \/ WriteFail
  \/ Settle

SpecHeal == InitLoad /\ [][NextHeal]_vars

(***************************************************************************)
(* Properties.  ev holds the last decision of the command in progress or   *)
(* just returned: the trees before and after it (cfgPre, cfgPost for       *)
(* this.config; refPre, refPost for the generation the command's reference *)
(* belongs to) and, once persistChanges has written, the content saved.    *)
(***************************************************************************)
\* The project list of the category at pathSegments of tree, empty when the
\* category or its list is missing.
ListAt(tree, pathSegments) ==
  IF getCategoryNodeByPath(tree, pathSegments) = Undefined THEN <<>>
  ELSE IF IsArray(ProjectsAt(tree, pathSegments))
    THEN ProjectsAt(tree, pathSegments).items
  ELSE <<>>

\* The node at pathSegments of tree has a key `projects`.
HasProjectsKey(tree, pathSegments) ==
  /\ getCategoryNodeByPath(tree, pathSegments) # Undefined
  /\ KeyIndex(getCategoryNodeByPath(tree, pathSegments), PROJECTS) # 0

\* The root and the categories of tree.
NodePaths(tree) == {<<>>} \cup Range(collectCategoryNodes(tree))

\* Every project of tree, list after list.
ProjectsOf(tree) ==
  ListAt(tree, <<>>)
  \o Flatten([i \in 1..Len(collectCategoryNodes(tree)) |->
                ListAt(tree, collectCategoryNodes(tree)[i])])

Count(seq, x) == Cardinality({i \in 1..Len(seq) : seq[i] = x})

\* The path renameCategory moves the category to.
RenameTarget == Append(ev.tgtPath, ev.name)

RenameDecided == ev.op = "renameCategory" /\ ev.outcome # "none"

\* C1: when renameCategory reaches its decision with the category present,
\* a category present at newParent + [newName] and that path not the
\* category's own, it shows the duplicate error, returns without writing,
\* and this.config is the tree it was before the decision.
C1_RenameCollisionRejected ==
  (/\ RenameDecided
   /\ getCategoryContainer(ev.cfgPre, ev.refPath).found
   /\ ~pathsEqual(RenameTarget, ev.refPath)
   /\ getCategoryNodeByPath(ev.cfgPre, RenameTarget) # Undefined)
  => /\ ev.outcome = "duplicate"
     /\ ev.cfgPost = ev.cfgPre
     /\ cmd.op = "renameCategory"
     /\ cmd.pc = "done"
     /\ cmd.msg = "error.duplicate"
     /\ ~ev.saved

\* A rename was rejected as a duplicate.
C1_Witness ==
  /\ RenameDecided
  /\ ev.outcome = "duplicate"
  /\ getCategoryNodeByPath(ev.cfgPre, RenameTarget) # Undefined

\* C2: when renameCategory goes on with a parent path at or below the
\* category's own path, it fails and the tree still holds the category with
\* its subtree at the old path.
C2_NoMoveIntoOwnSubtree ==
  (/\ RenameDecided
   /\ getCategoryContainer(ev.cfgPre, ev.refPath).found
   /\ isSameOrDescendantPath(ev.tgtPath, ev.refPath))
  => /\ ev.outcome # "mutated"
     /\ getCategoryNodeByPath(ev.cfgPost, ev.refPath)
          = getCategoryNodeByPath(ev.cfgPre, ev.refPath)

\* C3: after a successful renameCategory the subtree at the new path is the
\* subtree that was at the old path, the old path names no category, and
\* the root project list and the project list of every category outside the
\* moved subtree are what they were.
C3_RenameMovesSubtreeOnly ==
  (RenameDecided /\ ev.outcome = "mutated")
  => /\ getCategoryNodeByPath(ev.cfgPost, RenameTarget)
          = getCategoryNodeByPath(ev.cfgPre, ev.refPath)
     /\ getCategoryNodeByPath(ev.cfgPost, ev.refPath) = Undefined
     /\ GetProp(ev.cfgPost, PROJECTS) = GetProp(ev.cfgPre, PROJECTS)
     /\ \A c \in Range(collectCategoryNodes(ev.cfgPre)) :
          ~isSameOrDescendantPath(c, ev.refPath)
            => /\ getCategoryNodeByPath(ev.cfgPost, c) # Undefined
               /\ ListAt(ev.cfgPost, c) = ListAt(ev.cfgPre, c)
               /\ HasProjectsKey(ev.cfgPost, c) = HasProjectsKey(ev.cfgPre, c)

\* C4: every mutation of a command is applied to nodes of the tree that is
\* loaded when it is applied, so that removing a project or a category or
\* adding a project changes this.config.
C4_MutationsOnLoadedTree ==
  ev.outcome = "mutated"
  => /\ ev.op \in {"removeProject", "removeCategory", "addProject"}
          => ev.cfgPost # ev.cfgPre
     /\ ev.op \in {"editProject", "removeProject", "removeCategory"}
          => ev.refFresh
     /\ ev.op \in {"editProject", "addProject"} => ev.tgtFresh

\* C5: after removeCategory with "move contents to top level" the category
\* is gone from its path, its direct projects are the tail of the root
\* list, in order, each of its nested categories is a root category, and
\* every project the tree held is in the tree exactly once.
C5_MoveContentsToTopLevel ==
  (ev.op = "removeCategory" /\ ev.outcome = "mutated" /\ ev.name = <<"move">>)
  => /\ getCategoryNodeByPath(ev.cfgPost, ev.refPath) = Undefined
     /\ ListAt(ev.cfgPost, <<>>)
          = ListAt(ev.cfgPre, <<>>) \o ListAt(ev.refPre, ev.refPath)
     /\ \A i \in 1..Len(getCategoryNodeByPath(ev.refPre, ev.refPath).ents) :
          LET e == getCategoryNodeByPath(ev.refPre, ev.refPath).ents[i]
          IN  (e.k # PROJECTS /\ isPlainObject(e.v))
                => isPlainObject(GetProp(ev.cfgPost, e.k))
     /\ \A q \in Range(ProjectsOf(ev.cfgPre)) :
          Count(ProjectsOf(ev.cfgPost), q) = 1

\* editProject decided with the destination the source category / another.
EditedInPlace ==
  ev.op = "editProject" /\ ev.outcome = "mutated"
  /\ pathsEqual(ev.refPath, ev.tgtPath)

EditedAcross ==
  ev.op = "editProject" /\ ev.outcome = "mutated"
  /\ ~pathsEqual(ev.refPath, ev.tgtPath)

\* C6: an editProject whose destination is the source category leaves the
\* list with its length, the updated project at the index of the edited
\* one, and every other entry as it was.
C6_EditInPlace ==
  EditedInPlace
  => /\ Len(ListAt(ev.cfgPost, ev.refPath)) = Len(ListAt(ev.cfgPre, ev.refPath))
     /\ ev.refIndex + 1 \in 1..Len(ListAt(ev.cfgPost, ev.refPath))
     /\ ListAt(ev.cfgPost, ev.refPath)[ev.refIndex + 1] = ev.project
     /\ \A i \in 1..Len(ListAt(ev.cfgPost, ev.refPath)) :
          i # ev.refIndex + 1
            => ListAt(ev.cfgPost, ev.refPath)[i] = ListAt(ev.cfgPre, ev.refPath)[i]

\* C7: an editProject to another category leaves the updated project last
\* in the destination list behind the entries that were there, the source
\* list without the edited entry and otherwise in order, and the view
\* showing the project in the destination at the last index.
C7_EditAcrossAppends ==
  EditedAcross
  => /\ ListAt(ev.cfgPost, ev.tgtPath)
          = Append(ListAt(ev.cfgPre, ev.tgtPath), ev.project)
     /\ ListAt(ev.cfgPost, ev.refPath)
          = Splice1(ListAt(ev.cfgPre, ev.refPath), ev.refIndex)
     /\ \E item \in AllItems(ev.cfgPost) :
          /\ item.nodeType = "project"
          /\ item.categoryPath = ev.tgtPath
          /\ item.projectIndex = Len(ListAt(ev.cfgPost, ev.tgtPath)) - 1
          /\ item.label = GetProp(ev.project, LABEL).s

\* C8: an editProject to another category that takes the only project of
\* the source leaves the source node without a `projects` key, in
\* this.config and in the content it saves.
C8_EditAcrossDropsEmptyList ==
  (EditedAcross /\ Len(ListAt(ev.cfgPre, ev.refPath)) = 1)
  => /\ ~HasProjectsKey(ev.cfgPost, ev.refPath)
     /\ ev.saved => ~HasProjectsKey(ev.written.json, ev.refPath)

\* C9: a confirmed removeProject leaves the category's list without the
\* entry at the index and otherwise in order, without the `projects` key
\* when nothing is left, and every other list and category as it was.
C9_RemoveProjectExact ==
  (ev.op = "removeProject" /\ ev.outcome = "mutated")
  => /\ ListAt(ev.cfgPost, ev.refPath)
          = Splice1(ListAt(ev.cfgPre, ev.refPath), ev.refIndex)
     /\ Len(ListAt(ev.cfgPre, ev.refPath)) = Len(ListAt(ev.cfgPost, ev.refPath)) + 1
     /\ ListAt(ev.cfgPost, ev.refPath) = <<>>
          => ~HasProjectsKey(ev.cfgPost, ev.refPath)
     /\ NodePaths(ev.cfgPost) = NodePaths(ev.cfgPre)
     /\ \A c \in NodePaths(ev.cfgPre) :
          c # ev.refPath => ListAt(ev.cfgPost, c) = ListAt(ev.cfgPre, c)

\* The key `projects` of the root and of every category of tree is absent
\* or a list.
ProjectsKeysAreLists(tree) ==
  \A c \in NodePaths(tree) :
    HasProjectsKey(tree, c) => IsArray(ProjectsAt(tree, c))

\* C10: in this.config, in the content a command hands to writeFile and in
\* the content it has written, the key `projects` of the root and of every
\* category is absent or a list: no command makes it a category or discards
\* the list.
C10_ProjectsKeyIsAList ==
  /\ ProjectsKeysAreLists(config)
  /\ cmd.pc = "write" => ProjectsKeysAreLists(cmd.content.json)
  /\ ev.saved => ProjectsKeysAreLists(ev.written.json)

(***************************************************************************)
(* Properties of loading.  lastLoad holds what the last call of loadConfig *)
(* read and what it made of it; the issue map changes in loadConfig only.  *)
(***************************************************************************)
\* The last load parsed a document that is a plain object.
LoadedDocument ==
  lastLoad.read.kind = "json" /\ isPlainObject(lastLoad.read.json)

\* The structural key of the category at pathSegments.
KeyOfPath(pathSegments) ==
  IF pathSegments = <<>> THEN ROOT_KEY ELSE JoinWith(pathSegments, <<".">>)

\* The issue map has message under key.
HasIssue(key, message) ==
  \E i \in 1..Len(validationIssues) : validationIssues[i] = Issue(key, message)

\* The issue map has an entry under key.
HasIssueAt(key) ==
  \E i \in 1..Len(validationIssues) : validationIssues[i].key = key

\* Property name of a project entry of the document, undefined when the
\* entry is not a plain object.
PropOf(entry, name) ==
  IF isPlainObject(entry) THEN GetProp(entry, name) ELSE Undefined

\* The paths of the document's nodes that have a `projects` array.
ListPaths(document) ==
  {c \in NodePaths(document) : IsArray(ProjectsAt(document, c))}

\* The structural key of entry i (from 1) of the list at pathSegments.
EntryKey(pathSegments, i) == buildProjectKey(KeyOfPath(pathSegments), i - 1)

\* The entries of the document, as <<path, position>>, whose structural key
\* is key.
EntriesAt(document, key) ==
  {e \in UNION {{<<c, i>> : i \in 1..Len(ListAt(document, c))}
                : c \in ListPaths(document)} :
     EntryKey(e[1], e[2]) = key}

\* The normalized entry keeps what is valid of the entry of the document.
KeepsValid(normalized, entry) ==
  /\ IsNonBlankString(PropOf(entry, LABEL))
       => GetProp(normalized, LABEL) = PropOf(entry, LABEL)
  /\ IsNonBlankString(PropOf(entry, PATH))
       => GetProp(normalized, PATH) = PropOf(entry, PATH)

\* The normalized entry is the entry of the document with the placeholders
\* of normalizeProject where the entry is invalid.
NormalizedFrom(normalized, entry) ==
  /\ KeepsValid(normalized, entry)
  /\ isPlainObject(normalized)
  /\ ~isPlainObject(entry)
       => /\ GetProp(normalized, LABEL) = Str(<<"Invalid project">>)
          /\ GetProp(normalized, PATH) = Str(<<>>)
  /\ (isPlainObject(entry) /\ ~IsNonBlankString(PropOf(entry, LABEL)))
       => GetProp(normalized, LABEL) = Str(<<"Untitled">>)
  /\ (isPlainObject(entry) /\ ~IsNonBlankString(PropOf(entry, PATH)))
       => GetProp(normalized, PATH) = Str(<<>>)

C12_NonObjectKeysDropped ==
  LoadedDocument
  => \A c \in NodePaths(lastLoad.read.json) :
       \A i \in 1..Len(getCategoryNodeByPath(lastLoad.read.json, c).ents) :
         LET e == getCategoryNodeByPath(lastLoad.read.json, c).ents[i]
         IN  e.k # PROJECTS
               => IF isPlainObject(e.v)
                    THEN getCategoryNodeByPath(lastLoad.tree, Append(c, e.k))
                           # Undefined
                  ELSE /\ HasIssue(KeyOfPath(Append(c, e.k)), "error.categoryShape")
                       /\ KeyIndex(getCategoryNodeByPath(lastLoad.tree, c), e.k) = 0

\* The file read by the last load had no text to parse.
ReadNothing == lastLoad.read.kind \in {"missing", "blank"}

\* The file read by the last load did not parse, or parsed to something
\* that is not a plain object.
ReadUnusable ==
  \/ lastLoad.read.kind = "invalid"
  \/ lastLoad.read.kind = "json" /\ ~isPlainObject(lastLoad.read.json)

\* C13: a load of a missing or blank file leaves the empty tree and an empty
\* issue map; a load of a file that does not parse or whose top-level value
\* is not a plain object leaves the empty tree and an issue map whose only
\* key is the root key.  The tree of before the load is gone in each case.
C13_UnusableFileLoadsEmpty ==
  /\ ReadNothing => config = EmptyObject /\ validationIssues = <<>>
  /\ ReadUnusable
       => /\ config = EmptyObject
          /\ validationIssues # <<>>
          /\ \A i \in 1..Len(validationIssues) :
               validationIssues[i].key = ROOT_KEY

\* C13: a reload that found no usable document while a tree with content and
\* issues of its own was loaded.
C13_Witness ==
  /\ ~lastLoad.first
  /\ lastLoad.before # EmptyObject
  /\ ~lastLoad.prevClean
  /\ ReadUnusable
  /\ config = EmptyObject

\* C14: the validation warning is shown by a load exactly when the load ends
\* with a non-empty issue map and either it is the first load or the load
\* before it ended with an empty issue map.
C14_WarningOnCleanToIssues ==
  lastLoad.warned
    <=> /\ validationIssues # <<>>
        /\ lastLoad.first \/ lastLoad.prevClean

\* C14: a later load that ends with issues and shows the warning, the load
\* before it having ended clean.
C14_Witness ==
  /\ ~lastLoad.first
  /\ validationIssues # <<>>
  /\ lastLoad.prevClean
  /\ lastLoad.warned
  /\ hadValidationErrors

\* The issues recorded by normalizing what the last load read, in recording
\* order.
IssuesOfRead ==
  IF ReadNothing THEN <<>>
  ELSE IF lastLoad.read.kind = "invalid"
    THEN <<Issue(ROOT_KEY, "error.configRead")>>
  ELSE validateAndNormalizeConfig(lastLoad.read.json).issues

\* C15: after a load the issue map holds exactly the issues of normalizing
\* the content that load read; no issue of an earlier load is left in it.
C15_IssuesOfLastLoadOnly == validationIssues = IssuesOfRead

\* C15: a reload with issues of its own after a load that ended with other
\* issues.
C15_Witness ==
  /\ ~lastLoad.first
  /\ ~lastLoad.prevClean
  /\ validationIssues # <<>>
  /\ LoadedDocument
  /\ \E i \in 1..Len(validationIssues) :
       validationIssues[i].key # ROOT_KEY

(***************************************************************************)
(* Properties of the view and of project references                        *)
(***************************************************************************)
\* What a listed item is: a project by its index, a category by its name.
KindOf(item) ==
  IF item.nodeType = "project" THEN <<"project", item.projectIndex>>
  ELSE <<"category", item.label>>

KindsOf(children) == [i \in 1..Len(children) |-> KindOf(children[i])]

\* The projects of node by index.
ProjectKinds(node) ==
  IF IsArray(GetProp(node, PROJECTS))
    THEN [i \in 1..Len(GetProp(node, PROJECTS).items) |-> <<"project", i - 1>>]
  ELSE <<>>

\* The categories of node, which are its keys other than `projects` whose
\* value is a plain object, in key order.
CategoryKinds(node) ==
  LET cats == SelectSeq(node.ents,
                LAMBDA e : e.k # PROJECTS /\ isPlainObject(e.v))
  IN  [i \in 1..Len(cats) |-> <<"category", cats[i].k>>]

\* C16: the children listed for the root are its categories in key order and
\* then its projects by index; the children listed for a category are its
\* projects by index and then its nested categories in key order; nothing
\* else is listed.
C16_ChildrenAreCategoriesAndProjects ==
  /\ KindsOf(RootChildren(config)) = CategoryKinds(config) \o ProjectKinds(config)
  /\ \A c \in AllItems(config) :
       c.nodeType = "category"
         /\ isPlainObject(getCategoryNodeByPath(config, c.categoryPath))
       => KindsOf(CategoryChildren(getCategoryNodeByPath(config, c.categoryPath), c))
            = ProjectKinds(getCategoryNodeByPath(config, c.categoryPath))
              \o CategoryKinds(getCategoryNodeByPath(config, c.categoryPath))

\* The project items listed below the root category item c.
ProjectItemsOf(c) ==
  {p \in Range(CategoryChildren(GetProp(config, c.label), c)) :
     p.nodeType = "project"}

\* C17: the key `__root__.projects[i]` of a listed root project parses to the
\* empty category path and index i, and the key `<name>.projects[i]` of a
\* project listed in a root category parses to the one-segment path <name>
\* and index i, whether or not the name contains a dot.
C17_KeyParsesToOneSegment ==
  \A c \in Range(RootChildren(config)) :
    IF c.nodeType = "project"
      THEN parseProjectConfigPath(c.configPath)
             = [ok |-> TRUE, path |-> <<>>, index |-> c.projectIndex]
    ELSE c.label # ROOT_KEY
           => \A p \in ProjectItemsOf(c) :
                parseProjectConfigPath(p.configPath)
                  = [ok |-> TRUE, path |-> <<c.label>>, index |-> p.projectIndex]

\* C18: every project item listed for the loaded tree resolves to the
\* category path and the index the item was listed with.
C18_ListedReferenceResolvesToItself ==
  \A p \in AllItems(config) :
    p.nodeType = "project"
      => resolveProjectReference(config, p)
           = [ok |-> TRUE, path |-> p.categoryPath, index |-> p.projectIndex]

(***************************************************************************)
(* Properties of path conversion                                           *)
(***************************************************************************)
\* C19: for every absolute path p, resolving the portable form of p gives
\* the normalized form of p.
C19_PortableFormResolvesBack ==
  call.op = "resolve" => call.absolute = PathNormalize(call.arg)

\* The normalized path lies below the home directory.
BelowHome(normalized) == StartsWith(normalized, PathNormalize(HomeDir) \o <<SEP>>)

\* C20: the portable form of the home directory is "~"; that of a path below
\* the home directory is "~/" and the path relative to it with forward
\* slashes; that of every other path is the normalized path with
\* backslashes turned into forward slashes, which does not start with "~".
C20_PortableFormByLocation ==
  call.op # "none"
    => LET normalized == PathNormalize(call.arg)
           homeDir == PathNormalize(HomeDir)
       IN  IF normalized = homeDir THEN call.portable = <<"~">>
           ELSE IF BelowHome(normalized)
             THEN call.portable
                    = <<"~", SEP>>
                      \o toPosixPath(SubSeq(normalized, Len(homeDir) + 2,
                                            Len(normalized)))
           ELSE /\ call.portable = toPosixPath(normalized)
                /\ call.portable[1] # "~"

\* C21 as stated: every stored value that neither starts with "~" nor is
\* absolute resolves to the value resolved against the directory of the
\* config file.
C21_RelativeResolvesAgainstConfigDir ==
  call.op = "stored"
    /\ (call.arg = <<>> \/ call.arg[1] # "~")
    /\ ~isAbsolute(call.arg)
  => call.absolute = PathResolve(ConfigDir, call.arg)

\* C21: a stored value that is blank resolves to the empty string, and every
\* other stored value that after trimming neither starts with "~" nor is
\* absolute resolves to the trimmed value resolved against the directory of
\* the config file.
C21_TrimmedRelativeResolvesAgainstConfigDir ==
  call.op = "stored"
  => /\ Trim(call.arg) = <<>> => call.absolute = <<>>
     /\ Trim(call.arg) # <<>>
          /\ Trim(call.arg)[1] # "~"
          /\ ~isAbsolute(Trim(call.arg))
        => call.absolute = PathResolve(ConfigDir, Trim(call.arg))

\* C21: the relative value "w/d\e" was resolved, to a path below the
\* directory of the config file.
C21_Witness ==
  /\ call.op = "stored"
  /\ call.arg = <<"w", SEP, "d", BACKSLASH, "e">>
  /\ call.absolute = ConfigDir \o <<SEP>> \o call.arg

(***************************************************************************)
(* Properties of reloads, the watcher and persistence                      *)
(***************************************************************************)
\* A command has returned and its promise has not settled yet.
Returned == cmd.op # "idle" /\ cmd.pc = "done"

\* C22: when a command has returned, by success, error or cancellation, no
\* reload of the tree is left of which observers were not notified; the
\* reloads of the watch loop and of refresh notify in the same step.
C22_ReloadIsNotified == Returned => ~viewStale

TreeOfFile(f) == loadConfig(f, FALSE).config

\* C24: once the changes of projects.json by other processes have stopped
\* and no command runs, the watcher ends up watching the file itself
\* whenever the file exists, and the loaded tree ends up equal to the
\* normalization of the file's final content.
C24_WatchHealsAndTreeConverges ==
  <>[](/\ fileExists => watcher = "file"
       /\ config = TreeOfFile(file))

\* writeFile has opened projects.json and not yet completed.
SaveInProgress == cmd.pc = "write" /\ cmd.wstage = "truncated"

\* C26: a load that runs while a save is in progress reads the complete
\* previous content or the complete new content, never the truncated file.
\* No other process leaves projects.json blank, so a blank read is a read
\* of the file the save has truncated.
C26_LoadNeverReadsTruncatedFile ==
  SaveInProgress => lastLoad.read # BlankFile

\* The command has returned after its write failed.
SaveFailed == Returned /\ cmd.msg = "saveError"

\* C27: when the write of a mutating command fails, the command returns
\* with the save error shown, projects.json, which no other process has
\* touched, holds what it held before the write, and the tree in memory is
\* the tree with the command's change.
C27_FailedSaveKeepsFileAndTree ==
  SaveFailed /\ nEdits = 0
    => /\ file = ev.filePre
       /\ config = ev.cfgPost

\* The command has returned because a prompt was dismissed.  While viewStale
\* holds, the last load is the one the command made itself, and
\* lastLoad.before is the tree the command found.
Cancelled == Returned /\ cmd.msg = "none" /\ viewStale

\* C28 as stated: a command that ends because a prompt was dismissed leaves
\* the tree in memory as it found it, and leaves the issue map empty if and
\* only if it found it empty.
C28_CancelLeavesStateAsInvoked ==
  Cancelled
    => /\ config = lastLoad.before
       /\ (validationIssues = <<>>) <=> lastLoad.prevClean

\* A step of a command on a way that can end at a dismissed prompt: the
\* command is invoked, has a prompt answered or dismissed, or has its tree
\* reloaded under it, and neither begins a save nor shows a message.
SilentStep ==
  /\ cmd' # cmd
  /\ cmd.pc # "write" /\ cmd'.pc # "write"
  /\ cmd'.msg = "none"

\* C28: on the way to a dismissed prompt a command leaves projects.json
\* alone and changes the tree and the issue map by nothing but a load of
\* projects.json, so a command that ends silently leaves them as its last
\* load left them, or untouched when it has not loaded.
C28_CancelChangesNothingAfterLoad ==
  [][SilentStep
       => /\ file' = file
          /\ \/ UNCHANGED <<config, validationIssues>>
             \/ \E r \in {loadConfig(file, hadValidationErrors)} :
                  /\ config' = r.config
                  /\ validationIssues' = r.issues]_vars

\* C28: editProject has ended at a dismissed prompt after its own load had
\* replaced the tree it found.
C28_Witness ==
  /\ Cancelled
  /\ cmd.op = "editProject"
  /\ config # lastLoad.before
  /\ config = lastLoad.tree

\* Two trees hold the same data: they are equal but for properties whose
\* value is undefined, which a tree holds for a project without icon.
SameData(a, b) == Stringify(a) = Stringify(b)

\* C29: the tree a load produced, saved with no mutation and loaded again,
\* is the same tree: the same keys in the same order, the same lists in the
\* same order, the same label, path and icon of every project.
C29_SaveThenLoadKeepsTree ==
  call.op = "load" => SameData(config, lastLoad.before)

\* C29: the round trip has been made for a tree with a root list, a category
\* with a nested category, a placeholder entry and a project with an icon.
C29_Witness ==
  /\ call.op = "load"
  /\ ListAt(config, <<<<"Work">>, <<"Sub">>>>) # <<>>
  /\ Len(ListAt(config, <<<<"Work">>>>)) = 2
  /\ GetProp(ListAt(config, <<<<"Work">>>>)[2], LABEL) = Str(<<"Invalid project">>)
  /\ \E i \in 1..Len(ListAt(config, <<>>)) :
       GetProp(ListAt(config, <<>>)[i], ICON) = Str(<<"star">>)

\* The portable form of an absolute path: "~" for the home directory, "~/"
\* and the path relative to it for a path below it, the normalized path
\* for every other path, each with forward slashes.
PortableForm(p) ==
  LET normalized == PathNormalize(p)
      homeDir == PathNormalize(HomeDir)
  IN  IF normalized = homeDir THEN <<"~">>
      ELSE IF BelowHome(normalized)
        THEN <<"~", SEP>>
             \o toPosixPath(SubSeq(normalized, Len(homeDir) + 2, Len(normalized)))
      ELSE toPosixPath(normalized)

\* addProject, started on a category item, has its label prompt answered
\* and finds the category of the item in the tree it loads.
AddsOnCategoryItem ==
  /\ cmd.op = "addProject" /\ cmd.pc = "label"
  /\ cmd'.pc \notin {"label", "done"}
  /\ cmd.item.nodeType = "category"
  /\ getCategoryNodeByPath(lastLoad'.tree, cmd.item.categoryPath) # Undefined

\* The tree post is the loaded tree pre with one project more, last in the
\* list of the category at target, and nothing else changed: the same
\* categories, and every other list as it was.
AppendedAt(pre, post, target) ==
  /\ Len(ListAt(post, target)) = Len(ListAt(pre, target)) + 1
  /\ SubSeq(ListAt(post, target), 1, Len(ListAt(pre, target)))
       = ListAt(pre, target)
  /\ NodePaths(post) = NodePaths(pre)
  /\ \A other \in NodePaths(pre) \ {target} :
       /\ ListAt(post, other) = ListAt(pre, other)
       /\ HasProjectsKey(post, other) <=> HasProjectsKey(pre, other)

\* The frame part of C30: the project is pushed at once, last on the list
\* of the item's category, no other list or category is changed, and the
\* tree with the project is what the command saves.
AddProjectAppendsToItsCategory ==
  [][AddsOnCategoryItem
       => /\ cmd'.pc = "write"
          /\ AppendedAt(lastLoad'.tree, config', cmd.item.categoryPath)
          /\ cmd'.content = saveConfigToDisk(config')]_vars

\* C30: addProject on a category item whose path is in the tree the command
\* loads pushes the project last on the list of that category, with the
\* picked folder in portable form as its path, changes no other list or
\* category, and saves the tree with the project.
C30_AddProjectAppendsPortablePath ==
  [][AddsOnCategoryItem
       => /\ cmd'.pc = "write"
          /\ AppendedAt(lastLoad'.tree, config', cmd.item.categoryPath)
          /\ cmd'.content = saveConfigToDisk(config')
          /\ GetProp(ListAt(config', cmd.item.categoryPath)
                       [Len(ListAt(config', cmd.item.categoryPath))], PATH)
               = Str(PortableForm(cmd.path))]_vars

\* addCategory has decided on the name it was given.
AddCategoryDecided == ev.op = "addCategory" /\ ev.outcome # "none"

\* Every category of pre is a category of post with the same project list,
\* and every category post has more lies on the way to target and has no
\* project list.
CategoriesKept(pre, post, target) ==
  /\ NodePaths(pre) \subseteq NodePaths(post)
  /\ \A c \in NodePaths(pre) :
       /\ ListAt(post, c) = ListAt(pre, c)
       /\ HasProjectsKey(post, c) <=> HasProjectsKey(pre, c)
  /\ \A c \in NodePaths(post) \ NodePaths(pre) :
       /\ isSameOrDescendantPath(target, c)
       /\ ~HasProjectsKey(post, c)

\* C31: addCategory reports a duplicate and leaves the tree as it is when a
\* category exists at the new path; otherwise the tree it leaves and saves
\* has an empty category at the new path, every category it had before with
\* the project list it had, and besides those only empty categories on the
\* way to the new one.
C31_AddCategoryCreatesOnly ==
  AddCategoryDecided
    => /\ ev.outcome = "duplicate"
            <=> /\ ev.tgtPath # ev.refPath
                /\ getCategoryNodeByPath(ev.cfgPre, ev.tgtPath) # Undefined
       /\ ev.outcome = "duplicate" => ev.cfgPost = ev.cfgPre
       /\ ev.outcome = "mutated"
            => /\ getCategoryNodeByPath(ev.cfgPost, ev.tgtPath) = EmptyObject
               /\ CategoriesKept(ev.cfgPre, ev.cfgPost, ev.tgtPath)

\* The categories of node, the node itself not counted.
CategoriesOf(node) == Range(collectCategoryNodes(node))

\* C32: the merge of source into target has the projects of target followed
\* by those of source; below it, a category is one that target or source
\* has, and its list is the list it has in target followed by the list it
\* has in source, at every depth, so that a category of one side only is
\* carried over as it is and every project of either side is there once.
C32_MergeConcatenatesAtEveryDepth ==
  call.op = "merge"
    => /\ ListAt(call.merged, <<>>)
            = ListAt(call.target, <<>>) \o ListAt(call.source, <<>>)
       /\ CategoriesOf(call.merged)
            = CategoriesOf(call.target) \cup CategoriesOf(call.source)
       /\ \A c \in CategoriesOf(call.target) \cup CategoriesOf(call.source) :
            ListAt(call.merged, c)
              = ListAt(call.target, c) \o ListAt(call.source, c)
       /\ \A q \in Range(ProjectsOf(call.target) \o ProjectsOf(call.source)) :
            Count(ProjectsOf(call.merged), q) = 1

\* The tree has no project at the path and index the project item carries.
MissingProject(tree, item) ==
  ~ReferenceAt(tree, item.categoryPath, item.projectIndex).ok

\* The tree has no category at the path of the category item.
MissingCategory(tree, item) ==
  getCategoryNodeByPath(tree, resolveCategoryPath(item)) = Undefined

\* The step ends the command with the error msg, the tree as loaded and
\* projects.json as it was.
RejectedWith(msg) ==
  /\ cmd'.pc = "done"
  /\ cmd'.msg = msg
  /\ config' = lastLoad'.tree
  /\ file' = file

\* C33: editProject and removeProject started on a project item whose path
\* and index name no entry of the tree they load, and removeCategory
\* started on a category item whose path names no category of it, end with
\* the error and leave the loaded tree and the file as they are;
\* renameCategory, once its prompts are answered, does so when the tree has
\* no category at the path of its item.
C33_MissingTargetRejected ==
  [][/\ (/\ cmd.op = "idle"
         /\ cmd'.op \in {"editProject", "removeProject"}
         /\ cmd'.item.nodeType = "project"
         /\ MissingProject(lastLoad'.tree, cmd'.item))
          => RejectedWith("error.projectMissing")
     /\ (/\ cmd.op = "idle"
         /\ cmd'.op = "removeCategory"
         /\ cmd'.item.nodeType = "category"
         /\ MissingCategory(lastLoad'.tree, cmd'.item))
          => RejectedWith("error.categoryMissing")
     /\ (/\ cmd.op = "renameCategory" /\ cmd.pc = "pickParent"
         /\ ev' # ev
         /\ MissingCategory(config, cmd.item))
          => /\ cmd'.pc = "done"
             /\ cmd'.msg = "error.categoryMissing"
             /\ config' = config
             /\ file' = file]_vars

\* The path string the project object has now: the one in its place of
\* this.config while it is in a list of the loaded tree.
CurrentPath(project) ==
  LET o == call.objects[project]
  IN  IF o.generation = call.generation /\ o.listed
        THEN GetProp(ListAt(config, o.owner)[o.index + 1], PATH).s
      ELSE o.path

\* C34: every entry of the cache of resolved paths is
\* resolveProjectPathValue of the path its project object has now, and
\* getProjectResolvedPath never returns an entry that was written before
\* the last load.
C34_CacheCoherent ==
  /\ \A e \in call.resolvedPathCache :
       e.resolved = resolveProjectPathValue(CurrentPath(e.project))
  /\ \A r \in call.read : r.hit => r.entry.written = r.generation

\* Reached: after a reload an element of the earlier generation and the
\* new tree were listed, the cache holds entries, and one was read again.
C34_Witness ==
  /\ call.generation > 0
  /\ \E e \in call.resolvedPathCache :
       call.objects[e.project].generation < call.generation
  /\ \E r \in call.read : r.hit
  /\ \E e \in call.resolvedPathCache :
       call.objects[e.project].path = <<"~", SEP, "w">>

\* C35: in the loaded tree two different categories never have the same
\* structural key, and two different projects never have the same key
\* `<key>.projects[i]`.
C35_StructuralKeysUnique ==
  \A a, b \in AllItems(config) :
    a.nodeType = b.nodeType /\ a.configPath = b.configPath => a = b

\* No category name of the loaded tree holds a dot or is `__root__`.
PlainNames ==
  \A path \in Range(collectCategoryNodes(config)) :
    \A i \in 1..Len(path) : ~Includes(path[i], ".") /\ path[i] # ROOT_KEY

\* The keys are unique in every loaded tree whose category names are plain.
KeysUniqueForPlainNames == PlainNames => C35_StructuralKeysUnique

\* C36: for every non-blank path the user enters, resolving the form
\* editProject stores for it gives what resolving the entered path itself
\* gives.
C36_StoredFormResolvesAsInput ==
  call.op = "resolve" /\ Trim(call.arg) # <<>>
    => call.absolute = resolveProjectPathValue(call.arg)

\* The entered path is "~" followed by a name with no separator between.
TildeName(p) == Len(p) > 1 /\ p[1] = "~" /\ p[2] \notin {SEP, BACKSLASH}

\* The entered path, made absolute, is at or below the home directory in
\* another case of letters.
OtherCaseHome(p) ==
  LET normalized == PathNormalize(ExpandPathInput(p))
      home == PathNormalize(HomeDir)
  IN  /\ StartsWith(toLowerCase(normalized), toLowerCase(home))
      /\ ~StartsWith(normalized, home)

\* The entered path, made absolute, is the home directory followed by a
\* separator.
HomeWithSeparator(p) ==
  PathNormalize(ExpandPathInput(p)) = PathNormalize(HomeDir) \o <<SEP>>

\* The two resolutions agree for every other non-blank path in which no
\* name holds a backslash.
StoredFormResolvesAsInputElsewhere ==
  /\ call.op = "resolve"
  /\ Trim(call.arg) # <<>>
  /\ ~TildeName(Trim(call.arg))
  /\ ~OtherCaseHome(Trim(call.arg))
  /\ ~HomeWithSeparator(Trim(call.arg))
  /\ ~Includes(call.arg, BACKSLASH)
  => call.absolute = resolveProjectPathValue(call.arg)

\* C37: once a change event has scheduled a reload, the events are
\* answered by a load of the file, unless the provider is disposed first.
C37_PendingReloadRuns ==
  [](timers.burst > 0 => <>(timers.burst = 0 \/ Disposed))

\* Without errors of the watcher: the events are answered by a load
\* whatever the watch callback tears down and restarts.
PendingReloadRunsWithoutErrors == timers.burst > 0 ~> timers.burst = 0

\* Between construction and dispose, a restart is pending whenever no
\* watcher is open.
RestartPendingWhileClosed ==
  ~Disposed /\ watcher = "none" => timers.restart = 1 /\ watcherRetryTimeout

\* C38: until the provider is disposed a restart is pending whenever no
\* watcher is open (the one field this.watcher holds the open watcher);
\* once it is disposed no watcher is open and neither the reload timeout
\* nor the restart timeout is pending.
C38_WatcherLifecycle ==
  /\ RestartPendingWhileClosed
  /\ Disposed => /\ watcher = "none"
                 /\ timers.debounce = 0
                 /\ timers.restart = 0

\* Right after dispose() nothing is open or pending.
DisposeClosesEverything ==
  [][Dispose => /\ watcher' = "none"
                /\ timers'.debounce = 0
                /\ timers'.restart = 0]_vars

\* The keys under which the issue map holds issues.
IssueKeys(issues) == {issues[i].key : i \in 1..Len(issues)}

\* Every value the document before holds under a root key other than the
\* first segment of the target path is there in the document after.
RootValuesKept(before, after, target) ==
  before.kind = "json" /\ isPlainObject(before.json)
    => /\ after.kind = "json"
       /\ \A i \in 1..Len(before.json.ents) :
            before.json.ents[i].k # target[1]
              => GetProp(after.json, before.json.ents[i].k)
                   = before.json.ents[i].v

\* The step in which the save of a command completes and the file is
\* loaded again.
SaveCompletes == cmd.pc = "write" /\ ev'.saved

\* C39: when the save-and-reload of a successful addCategory completes,
\* the issues reported for the entries that were there before are reported
\* under the same keys as before the command, and what the file held
\* outside the new category it still holds.
C39_MutationKeepsOtherEntries ==
  [][SaveCompletes
       => /\ IssueKeys(validationIssues') = IssueKeys(validationIssues)
          /\ RootValuesKept(ev.filePre, file', ev.tgtPath)]_vars

\* The same for a file that loads without issues and a name that has no
\* segment `projects`.
MutationKeepsOtherEntriesOfValidFile ==
  [][(/\ SaveCompletes
      /\ validationIssues = <<>>
      /\ \A i \in 1..Len(ev.tgtPath) : ev.tgtPath[i] # PROJECTS)
       => /\ IssueKeys(validationIssues') = IssueKeys(validationIssues)
          /\ RootValuesKept(ev.filePre, file', ev.tgtPath)]_vars

====
